---------------------------- MODULE Spec2Model ----------------------------
(***************************************************************************)
(* Model of the ShadowGit MCP server (blade47/shadowgit-mcp): the git      *)
(* command gateway (GitExecutor.execute), the repository resolver          *)
(* (RepositoryManager.resolveRepoPath) and the tool handlers that drive    *)
(* them.  JavaScript strings are TLA+ strings; TLC evaluates Len, SubSeq   *)
(* and \o on them, so tokenizing, lower-casing, prefix tests and path      *)
(* normalisation are computed character by character as the code does.    *)
(* Paths follow Node's POSIX implementation of the path module.            *)
(***************************************************************************)
EXTENDS Integers, Sequences, FiniteSets, TLC

VARIABLES
    repositories,   \* RepositoryManager.repositories: the snapshot loaded by the constructor
    fs,             \* the filesystem: path -> "none" | "dir" | "file"
    processEnv,     \* process.env of the server process
    ecall,          \* GitExecutor.execute called directly: its arguments
    eret,           \* ... and its outcome
    rcall,          \* resolveRepoPath called directly: its argument
    rret,           \* ... and its outcome
    scall,          \* a SessionClient method called directly: the method and how fetch ended
    sret,           \* ... and its outcome
    reqs,           \* tool requests in flight: handler position and locals
    execLog         \* the GitExecutor.execute calls made by the handlers, in order

vars == <<repositories, fs, processEnv, ecall, eret, rcall, rret, scall, sret, reqs, execLog>>

-----------------------------------------------------------------------------
(* Bounds of the model *)

MaxPieces == 2      \* pieces concatenated into a command string
MaxArgs == 2        \* tokens of a pre-built argument array
MaxRepos == 2       \* entries of the repository snapshot

-----------------------------------------------------------------------------
(* String primitives (String.prototype) *)

CharAt(s, i) == SubSeq(s, i, i)

startsWith(s, p) == Len(p) <= Len(s) /\ SubSeq(s, 1, Len(p)) = p

endsWith(s, p) == Len(p) <= Len(s) /\ SubSeq(s, Len(s) - Len(p) + 1, Len(s)) = p

includes(s, c) == \E i \in 1..Len(s) : Len(c) <= Len(s) - i + 1 /\ SubSeq(s, i, i + Len(c) - 1) = c

\* s.slice(n): the string from 0-based index n on
slice(s, n) == SubSeq(s, n + 1, Len(s))

UpperChars == "ABCDEFGHIJKLMNOPQRSTUVWXYZ"
LowerChars == "abcdefghijklmnopqrstuvwxyz"

lowerChar(c) ==
    IF \E i \in 1..Len(UpperChars) : CharAt(UpperChars, i) = c
    THEN CharAt(LowerChars, CHOOSE i \in 1..Len(UpperChars) : CharAt(UpperChars, i) = c)
    ELSE c

\* the characters lo..hi of s in lower case (halving keeps the evaluation shallow)
RECURSIVE lowerRange(_, _, _)
lowerRange(s, lo, hi) ==
    IF lo > hi THEN ""
    ELSE IF lo = hi THEN lowerChar(CharAt(s, lo))
    ELSE lowerRange(s, lo, (lo + hi) \div 2) \o lowerRange(s, (lo + hi) \div 2 + 1, hi)

toLowerCase(s) == lowerRange(s, 1, Len(s))

\* control characters that have no escape in a TLA+ string, written raw
CharSOH == ""   \* U+0001
CharVT == ""    \* U+000B
CharUS == ""    \* U+001F
CharDEL == ""   \* U+007F

\* /\s/ on one character, for the characters the model's strings hold
isWhitespace(c) == c \in {" ", "\t", "\n", "\r", "\f", CharVT}

RECURSIVE trimLeft(_)
trimLeft(s) == IF s # "" /\ isWhitespace(CharAt(s, 1)) THEN trimLeft(slice(s, 1)) ELSE s

RECURSIVE trimRight(_)
trimRight(s) ==
    IF s # "" /\ isWhitespace(CharAt(s, Len(s))) THEN trimRight(SubSeq(s, 1, Len(s) - 1)) ELSE s

trim(s) == trimRight(trimLeft(s))

RECURSIVE repeat(_, _)
repeat(s, n) ==
    IF n <= 0 THEN ""
    ELSE IF n = 1 THEN s
    ELSE repeat(s, n \div 2) \o repeat(s, n - (n \div 2))

RECURSIVE joinWith(_, _)
joinWith(seq, sep) ==
    IF Len(seq) = 0 THEN ""
    ELSE IF Len(seq) = 1 THEN seq[1]
    ELSE seq[1] \o sep \o joinWith(Tail(seq), sep)

-----------------------------------------------------------------------------
(* Node's path module, POSIX flavour *)

\* the segments of p between '/' characters, empty ones included
RECURSIVE splitSlash(_, _, _)
splitSlash(p, i, cur) ==
    IF i > Len(p) THEN <<cur>>
    ELSE IF CharAt(p, i) = "/" THEN <<cur>> \o splitSlash(p, i + 1, "")
    ELSE splitSlash(p, i + 1, cur \o CharAt(p, i))

\* normalizeString: resolves '.' and '..' segments; res is the stack of kept segments
RECURSIVE normalizeSegs(_, _, _)
normalizeSegs(segs, res, allowAboveRoot) ==
    IF Len(segs) = 0 THEN res
    ELSE LET s == Head(segs) IN
         IF s = "" \/ s = "." THEN normalizeSegs(Tail(segs), res, allowAboveRoot)
         ELSE IF s = ".." THEN
             IF Len(res) > 0 /\ res[Len(res)] # ".."
             THEN normalizeSegs(Tail(segs), SubSeq(res, 1, Len(res) - 1), allowAboveRoot)
             ELSE IF allowAboveRoot
                  THEN normalizeSegs(Tail(segs), Append(res, ".."), allowAboveRoot)
                  ELSE normalizeSegs(Tail(segs), res, allowAboveRoot)
         ELSE normalizeSegs(Tail(segs), Append(res, s), allowAboveRoot)

isAbsolute(p) == Len(p) > 0 /\ CharAt(p, 1) = "/"

normalize(p) ==
    IF Len(p) = 0 THEN "."
    ELSE LET abs == isAbsolute(p)
             trailing == CharAt(p, Len(p)) = "/"
             body == joinWith(normalizeSegs(splitSlash(p, 1, ""), <<>>, ~abs), "/")
         IN  IF Len(body) = 0
             THEN (IF abs THEN "/" ELSE IF trailing THEN "./" ELSE ".")
             ELSE (IF abs THEN "/" ELSE "") \o body \o (IF trailing THEN "/" ELSE "")

\* path.join(a, b)
join(a, b) ==
    IF Len(a) = 0 /\ Len(b) = 0 THEN "."
    ELSE IF Len(a) = 0 THEN normalize(b)
    ELSE IF Len(b) = 0 THEN normalize(a)
    ELSE normalize(a \o "/" \o b)


-----------------------------------------------------------------------------
(* utils/constants and core/security-constants *)

SHADOWGIT_DIR == ".shadowgit.git"
TIMEOUT_MS == 10000
MAX_COMMAND_LENGTH == 1000

SAFE_COMMANDS ==
    {"log", "show", "diff", "status", "describe", "rev-parse", "ls-files",
     "ls-tree", "cat-file", "show-branch", "shortlog", "rev-list", "blame"}

\* Array.from(SAFE_COMMANDS): insertion order
SAFE_COMMANDS_LIST ==
    <<"log", "show", "diff", "status", "describe", "rev-parse", "ls-files",
      "ls-tree", "cat-file", "show-branch", "shortlog", "rev-list", "blame">>

DANGEROUS_PATTERNS_NoWorkTree ==
    <<"--upload-pack", "--receive-pack", "--exec", "-c", "--config", "-e", "--git-dir", "-C">>

DANGEROUS_PATTERNS ==
    <<"--upload-pack", "--receive-pack", "--exec", "-c", "--config", "-e",
      "--git-dir", "--work-tree", "-C">>

isDangerousArg_CaseSensitive(arg) ==
    \E i \in 1..Len(DANGEROUS_PATTERNS) :
        arg = DANGEROUS_PATTERNS[i] \/ startsWith(arg, DANGEROUS_PATTERNS[i] \o "=")

isDangerousArg(arg) ==
    LET lowerArg == toLowerCase(arg) IN
    \E i \in 1..Len(DANGEROUS_PATTERNS) :
        lowerArg = DANGEROUS_PATTERNS[i] \/ startsWith(lowerArg, DANGEROUS_PATTERNS[i] \o "=")

-----------------------------------------------------------------------------
(* The filesystem as fs.existsSync sees it *)

stripTrailingSlash(p) == IF Len(p) > 1 /\ endsWith(p, "/") THEN SubSeq(p, 1, Len(p) - 1) ELSE p

\* fs.existsSync(p): never throws; a path with a trailing '/' exists only as a directory
existsSync(fsys, p) ==
    LET q == stripTrailingSlash(p) IN
    /\ q \in DOMAIN fsys
    /\ fsys[q] # "none"
    /\ (q # p => fsys[q] = "dir")

-----------------------------------------------------------------------------
(* core/git-executor: GitExecutor.execute *)

EmptyEnv == [k \in {} |-> ""]

\* {...a, ...b}
spread(a, b) == [k \in (DOMAIN a) \cup (DOMAIN b) |-> IF k \in DOMAIN b THEN b[k] ELSE a[k]]

\* the command parameter: string | string[]
StrCmd(s) == [isArray |-> FALSE, str |-> s, arr |-> <<>>]
ArrCmd(a) == [isArray |-> TRUE, str |-> "", arr |-> a]

\* a character class that forgets \x7F
StrippedControlChars_NoDEL == {"\f", CharSOH, CharVT, CharUS}

\* the characters /[\x00-\x08\x0B\x0C\x0E-\x1F\x7F]/ matches, among those a command may hold
StrippedControlChars == {"\f", CharSOH, CharVT, CharUS, CharDEL}

RECURSIVE sanitizeRange(_, _, _)
sanitizeRange(s, lo, hi) ==
    IF lo > hi THEN ""
    ELSE IF lo = hi THEN (IF CharAt(s, lo) \in StrippedControlChars THEN "" ELSE CharAt(s, lo))
    ELSE sanitizeRange(s, lo, (lo + hi) \div 2) \o sanitizeRange(s, (lo + hi) \div 2 + 1, hi)

\* command.replace(/[\x00-\x08\x0B\x0C\x0E-\x1F\x7F]/g, '')
sanitize(command) == sanitizeRange(command, 1, Len(command))

\* one iteration of the parsing loop at 1-based position i; st holds args, current,
\* inQuotes, quoteChar, and skip, which is set when the iteration before did i++
parseStep(s, i, st) ==
    LET char == CharAt(s, i)
        nextChar == IF i + 1 <= Len(s) THEN CharAt(s, i + 1) ELSE ""
    IN  IF st.skip THEN [st EXCEPT !.skip = FALSE]
        ELSE IF ~st.inQuotes /\ (char = "\"" \/ char = "'")
        THEN [st EXCEPT !.inQuotes = TRUE, !.quoteChar = char]
        ELSE IF st.inQuotes /\ char = "\\" /\ nextChar = st.quoteChar
        THEN [st EXCEPT !.current = st.current \o st.quoteChar, !.skip = TRUE]
        ELSE IF st.inQuotes /\ char = st.quoteChar
        THEN [st EXCEPT !.inQuotes = FALSE, !.quoteChar = ""]
        ELSE IF ~st.inQuotes /\ isWhitespace(char)
        THEN (IF st.current # ""
              THEN [st EXCEPT !.args = Append(st.args, st.current), !.current = ""]
              ELSE st)
        ELSE [st EXCEPT !.current = st.current \o char]

\* the iterations for positions lo..hi in order, from state st
RECURSIVE parseRange(_, _, _, _)
parseRange(s, lo, hi, st) ==
    IF lo > hi THEN st
    ELSE IF lo = hi THEN parseStep(s, lo, st)
    ELSE LET left == parseRange(s, lo, (lo + hi) \div 2, st)
         IN  IF left.skip \in BOOLEAN
             THEN parseRange(s, (lo + hi) \div 2 + 1, hi, left)
             ELSE st

\* the whole loop and the push of the last token that follows it
parseArgs(sanitizedCommand) ==
    LET st == parseRange(sanitizedCommand, 1, Len(sanitizedCommand),
                         [args |-> <<>>, current |-> "", inQuotes |-> FALSE, quoteChar |-> "", skip |-> FALSE])
    IN  IF st.current # "" THEN Append(st.args, st.current) ELSE st.args

\* a value thrown by execFileSync: type is "Error", "object", "string", "null" or
\* "undefined"; fields holds the properties (or the string's value) that are present
field(e, f) == IF f \in DOMAIN e.fields THEN e.fields[f] ELSE ""

\* `${error}`
toStr(e) ==
    CASE e.type = "Error" ->
            (IF field(e, "message") = "" THEN "Error" ELSE "Error: " \o field(e, "message"))
      [] e.type = "object" -> "[object Object]"
      [] e.type = "string" -> field(e, "value")
      [] e.type = "null" -> "null"
      [] OTHER -> "undefined"

Returned(text, args, spawned) == [kind |-> "return", text |-> text, args |-> args, spawned |-> spawned]
Thrown(args, spawned) == [kind |-> "throw", text |-> "", args |-> args, spawned |-> spawned]

\* a catch block that forgets the final fallback return
catchExec_NoFallback(error, args, spawned) ==
    IF error.type \in {"Error", "object"}
    THEN (IF field(error, "code") = "ETIMEDOUT" \/ field(error, "signal") = "SIGTERM"
          THEN Returned("Error: Command timed out after " \o ToString(TIMEOUT_MS) \o "ms.", args, spawned)
          ELSE Returned("Error executing git command:\n" \o field(error, "message"), args, spawned))
    ELSE Thrown(args, spawned)

\* a catch block that looks for stderr/stdout/status before it looks for a timeout
catchExec_DetailsFirst(error, args, spawned) ==
    IF error.type \in {"Error", "object"}
          /\ ({"stderr", "stdout", "status"} \cap DOMAIN error.fields) # {}
    THEN Returned("Error executing git command:\n" \o field(error, "message"), args, spawned)
    ELSE IF error.type \in {"Error", "object"}
          /\ (field(error, "code") = "ETIMEDOUT" \/ field(error, "signal") = "SIGTERM")
    THEN Returned("Error: Command timed out after " \o ToString(TIMEOUT_MS) \o "ms.", args, spawned)
    ELSE Returned("Error: " \o toStr(error), args, spawned)

\* the catch block of execute
catchExec(error, args, spawned) ==
    IF error.type \in {"Error", "object"}
          /\ (field(error, "code") = "ETIMEDOUT" \/ field(error, "signal") = "SIGTERM")
    THEN Returned("Error: Command timed out after " \o ToString(TIMEOUT_MS) \o "ms.", args, spawned)
    ELSE IF error.type \in {"Error", "object"}
          /\ ({"stderr", "stdout", "status"} \cap DOMAIN error.fields) # {}
    THEN LET stderr == field(error, "stderr")
             stdout == field(error, "stdout")
             message == IF field(error, "message") # "" THEN field(error, "message") ELSE "Unknown error"
         IN  Returned("Error executing git command:\n" \o message \o "\n"
                        \o (IF stderr # "" THEN "\nError output:\n" \o stderr ELSE "") \o "\n"
                        \o (IF stdout # "" THEN "\nPartial output:\n" \o stdout ELSE ""),
                      args, spawned)
    ELSE Returned("Error: " \o toStr(error), args, spawned)

\* an options object whose env spreads process.env after the overrides
spawnOf_ProcessEnvLast(gitDir, repoPath, args, penv, additionalEnv) ==
    [file |-> "git",
     args |-> <<"--git-dir=" \o gitDir, "--work-tree=" \o repoPath>> \o args,
     cwd |-> repoPath,
     timeout |-> TIMEOUT_MS,
     env |-> spread(spread([GIT_TERMINAL_PROMPT |-> "0", GIT_SSH_COMMAND |-> "ssh -o BatchMode=yes",
                            GIT_PAGER |-> "cat", PAGER |-> "cat"],
                           additionalEnv),
                    penv)]

\* an invoker that joins the tokens into one line and splits that line again
spawnOf_ReTokenized(gitDir, repoPath, args, penv, additionalEnv) ==
    [file |-> "git",
     args |-> <<"--git-dir=" \o gitDir, "--work-tree=" \o repoPath>> \o parseArgs(joinWith(args, " ")),
     cwd |-> repoPath,
     timeout |-> TIMEOUT_MS,
     env |-> spread(spread(penv,
                           [GIT_TERMINAL_PROMPT |-> "0", GIT_SSH_COMMAND |-> "ssh -o BatchMode=yes",
                            GIT_PAGER |-> "cat", PAGER |-> "cat"]),
                    additionalEnv)]

\* the options object and argument list handed to execFileSync
spawnOf(gitDir, repoPath, args, penv, additionalEnv) ==
    [file |-> "git",
     args |-> <<"--git-dir=" \o gitDir, "--work-tree=" \o repoPath>> \o args,
     cwd |-> repoPath,
     timeout |-> TIMEOUT_MS,
     env |-> spread(spread(penv,
                           [GIT_TERMINAL_PROMPT |-> "0", GIT_SSH_COMMAND |-> "ssh -o BatchMode=yes",
                            GIT_PAGER |-> "cat", PAGER |-> "cat"]),
                    additionalEnv)]

\* the argument vector: the array as given, or the tokens of the sanitized string
argsOf(command) == IF command.isArray THEN command.arr ELSE parseArgs(sanitize(command.str))

\* a length check that also rejects a string of exactly the maximum length
tooLong_AtLimit(command, isInternal) ==
    ~command.isArray /\ ~isInternal /\ Len(command.str) >= MAX_COMMAND_LENGTH

tooLong(command, isInternal) ==
    ~command.isArray /\ ~isInternal /\ Len(command.str) > MAX_COMMAND_LENGTH

notWhitelisted_IgnoreCase(isInternal, gitCommand) ==
    ~isInternal /\ toLowerCase(gitCommand) \notin SAFE_COMMANDS

\* safety check 2
notWhitelisted(isInternal, gitCommand) == ~isInternal /\ gitCommand \notin SAFE_COMMANDS

\* checks whose blacklist rejection names the token that matched
checked_NamesToken(command, repoPath, isInternal, fsys) ==
    IF tooLong(command, isInternal)
    THEN [args |-> <<>>,
          rejection |-> "Error: Command too long (max " \o ToString(MAX_COMMAND_LENGTH) \o " characters)."]
    ELSE LET args == argsOf(command) IN
         [args |-> args,
          rejection |->
             IF Len(args) = 0 THEN "Error: No command provided."
             ELSE IF \E i \in 1..Len(args) : isDangerousArg(args[i])
             THEN "Error: Command contains potentially dangerous arguments: "
                    \o args[CHOOSE i \in 1..Len(args) : isDangerousArg(args[i])]
             ELSE IF notWhitelisted(isInternal, args[1])
             THEN "Error: Command '" \o args[1]
                    \o "' is not allowed. Only read-only commands are permitted.\n\nAllowed commands: "
                    \o joinWith(SAFE_COMMANDS_LIST, ", ")
             ELSE IF ~existsSync(fsys, join(repoPath, SHADOWGIT_DIR))
             THEN "Error: Not a ShadowGit repository. The .shadowgit.git directory was not found at "
                    \o join(repoPath, SHADOWGIT_DIR)
             ELSE ""]

\* checks that consult the whitelist before the blacklist
checked_WhitelistFirst(command, repoPath, isInternal, fsys) ==
    IF tooLong(command, isInternal)
    THEN [args |-> <<>>,
          rejection |-> "Error: Command too long (max " \o ToString(MAX_COMMAND_LENGTH) \o " characters)."]
    ELSE LET args == argsOf(command) IN
         [args |-> args,
          rejection |->
             IF Len(args) = 0 THEN "Error: No command provided."
             ELSE IF notWhitelisted(isInternal, args[1])
             THEN "Error: Command '" \o args[1]
                    \o "' is not allowed. Only read-only commands are permitted.\n\nAllowed commands: "
                    \o joinWith(SAFE_COMMANDS_LIST, ", ")
             ELSE IF \E i \in 1..Len(args) : isDangerousArg(args[i])
             THEN "Error: Command contains potentially dangerous arguments."
             ELSE IF ~existsSync(fsys, join(repoPath, SHADOWGIT_DIR))
             THEN "Error: Not a ShadowGit repository. The .shadowgit.git directory was not found at "
                    \o join(repoPath, SHADOWGIT_DIR)
             ELSE ""]

\* the part of execute before the try block (lines 29-104): the argument vector and
\* the text returned by the first check that fails, "" when every check passes
checked(command, repoPath, isInternal, fsys) ==
    IF tooLong(command, isInternal)
    THEN [args |-> <<>>,
          rejection |-> "Error: Command too long (max " \o ToString(MAX_COMMAND_LENGTH) \o " characters)."]
    ELSE LET args == argsOf(command) IN
         [args |-> args,
          rejection |->
             IF Len(args) = 0 THEN "Error: No command provided."
             ELSE IF \E i \in 1..Len(args) : isDangerousArg(args[i])
             THEN "Error: Command contains potentially dangerous arguments."
             ELSE IF notWhitelisted(isInternal, args[1])
             THEN "Error: Command '" \o args[1]
                    \o "' is not allowed. Only read-only commands are permitted.\n\nAllowed commands: "
                    \o joinWith(SAFE_COMMANDS_LIST, ", ")
             ELSE IF ~existsSync(fsys, join(repoPath, SHADOWGIT_DIR))
             THEN "Error: Not a ShadowGit repository. The .shadowgit.git directory was not found at "
                    \o join(repoPath, SHADOWGIT_DIR)
             ELSE ""]

\* a try block that trims the output before returning it
invoke_Trimmed(args, repoPath, additionalEnv, penv, proc) ==
    LET spawned == <<spawnOf(join(repoPath, SHADOWGIT_DIR), repoPath, args, penv, additionalEnv)>>
    IN  IF proc.kind = "ok"
        THEN Returned(IF trim(proc.output) # "" THEN trim(proc.output) ELSE "(empty output)", args, spawned)
        ELSE catchExec(proc.error, args, spawned)

\* the try block and its catch (lines 108-152), when the git process ends as proc says
invoke(args, repoPath, additionalEnv, penv, proc) ==
    LET spawned == <<spawnOf(join(repoPath, SHADOWGIT_DIR), repoPath, args, penv, additionalEnv)>>
    IN  IF proc.kind = "ok"
        THEN Returned(IF proc.output # "" THEN proc.output ELSE "(empty output)", args, spawned)
        ELSE catchExec(proc.error, args, spawned)

\* execute, its checks already evaluated to c
executeChecked(c, repoPath, additionalEnv, penv, proc) ==
    IF c.rejection # ""
    THEN Returned(c.rejection, c.args, <<>>)
    ELSE invoke(c.args, repoPath, additionalEnv, penv, proc)

\* execute(command, repoPath, isInternal, additionalEnv) in filesystem fsys and environment
\* penv, when the git process ends as proc says should it be started
execute(command, repoPath, isInternal, additionalEnv, fsys, penv, proc) ==
    executeChecked(checked(command, repoPath, isInternal, fsys), repoPath, additionalEnv, penv, proc)

-----------------------------------------------------------------------------
(* core/repository-manager: RepositoryManager *)

\* os.homedir()
homedir == "/home/u"

\* utils/file-utils fileExists: fs.existsSync inside try/catch
fileExists(fsys, filePath) == existsSync(fsys, filePath)

\* An element of the loaded array: kind is "object", "string" or "null" (readJsonFile
\* returns whatever JSON.parse gave); fields holds the properties that are present.
RepoEntry(name, path) == [kind |-> "object", fields |-> [name |-> name, path |-> path]]

\* this.repositories.find(r => r.name === name), scanning from index i:
\* reading .name of null throws a TypeError, a string has no .name
RECURSIVE findFrom(_, _, _)
findFrom(repos, name, i) ==
    IF i > Len(repos) THEN [kind |-> "undefined", index |-> 0]
    ELSE IF repos[i].kind = "null" THEN [kind |-> "throw", index |-> i]
    ELSE IF repos[i].kind = "object" /\ "name" \in DOMAIN repos[i].fields
            /\ repos[i].fields["name"] = name
    THEN [kind |-> "found", index |-> i]
    ELSE findFrom(repos, name, i + 1)

findRepository(repos, name) == findFrom(repos, name, 1)

\* outcomes of resolveRepoPath: what is returned or thrown, the string taken from the
\* tilde step (expanded), the paths whose existence was probed, and the branch taken
Resolved(kind, value, expanded, probes, branch) ==
    [kind |-> kind, value |-> value, expanded |-> expanded, probes |-> probes, branch |-> branch]

expandTilde_Anywhere(p, home) ==
    IF includes(p, "~")
    THEN LET i == CHOOSE k \in 1..Len(p) : CharAt(p, k) = "~" /\ \A j \in 1..(k - 1) : CharAt(p, j) # "~"
         IN  join(home, SubSeq(p, i + 1, Len(p)))
    ELSE p

\* the tilde step shared by both branches (lines 66-73 and 97-103): "~" and "~/rest"
\* are expanded, every other string is left as it is
expandTilde(p, home) ==
    IF startsWith(p, "~")
    THEN (IF p = "~" THEN home
          ELSE IF startsWith(p, "~/") THEN join(home, slice(p, 2))
          ELSE p)
    ELSE p

\* const isPath = ...
isPath(repoNameOrPath) ==
    \/ startsWith(repoNameOrPath, "/")
    \/ startsWith(repoNameOrPath, "~")
    \/ includes(repoNameOrPath, ":")
    \/ startsWith(repoNameOrPath, "\\\\")

\* the branch taken when findRepository returned an entry (lines 63-86);
\* .startsWith of a missing path throws a TypeError
resolveKnown(knownRepo, fsys) ==
    IF "path" \notin DOMAIN knownRepo.fields
    THEN Resolved("throw", "", "", <<>>, "name")
    ELSE LET repoPath == expandTilde(knownRepo.fields["path"], homedir)
             shadowgitPath == join(repoPath, SHADOWGIT_DIR)
         IN  IF fileExists(fsys, shadowgitPath)
             THEN Resolved("path", repoPath, repoPath, <<shadowgitPath>>, "name")
             ELSE Resolved("null", "", repoPath, <<shadowgitPath>>, "name")

\* the branch taken for a path-like input (lines 94-128)
resolveAsPath(repoNameOrPath, fsys) ==
    IF startsWith(repoNameOrPath, "~") /\ repoNameOrPath # "~" /\ ~startsWith(repoNameOrPath, "~/")
    THEN Resolved("null", "", "", <<>>, "path")
    ELSE LET expanded == expandTilde(repoNameOrPath, homedir)
             resolvedPath == normalize(expanded)
             shadowgitPath == join(resolvedPath, SHADOWGIT_DIR)
         IN  IF ~isAbsolute(resolvedPath)
             THEN Resolved("null", "", expanded, <<>>, "path")
             ELSE IF ~fileExists(fsys, resolvedPath)
             THEN Resolved("null", "", expanded, <<resolvedPath>>, "path")
             ELSE IF fileExists(fsys, shadowgitPath)
             THEN Resolved("path", resolvedPath, expanded, <<resolvedPath, shadowgitPath>>, "path")
             ELSE Resolved("null", "", expanded, <<resolvedPath, shadowgitPath>>, "path")

\* resolveRepoPath(repoNameOrPath); input is [kind |-> "string" | "null" | "undefined", value]
resolveRepoPath(input, repos, fsys) ==
    IF input.kind # "string" \/ input.value = ""
    THEN Resolved("null", "", "", <<>>, "none")
    ELSE LET knownRepo == findRepository(repos, input.value) IN
         IF knownRepo.kind = "throw" THEN Resolved("throw", "", "", <<>>, "none")
         ELSE IF knownRepo.kind = "found" THEN resolveKnown(repos[knownRepo.index], fsys)
         ELSE IF isPath(input.value) THEN resolveAsPath(input.value, fsys)
         ELSE Resolved("null", "", "", <<>>, "none")


-----------------------------------------------------------------------------
(* Inputs and environments the specifications draw from *)

\* every path the model's filesystems know; any other path does not exist
FsPaths ==
    {"/r", "/r/.shadowgit.git", "/r/~", "/r/~/.shadowgit.git",
     "/home/u", "/home/u/.shadowgit.git", "/home/u/p", "/home/u/p/.shadowgit.git",
     "rel", "rel/.shadowgit.git", "~x", "~x/.shadowgit.git"}

RepoDirs == {"/r", "/r/~", "/home/u", "/home/u/p", "rel", "~x"}

markerOf(d) == d \o "/" \o SHADOWGIT_DIR

\* the filesystem in which dirs are directories, files are regular files, nothing else exists
MkFs(dirs, files) ==
    [p \in FsPaths |-> IF p \in dirs THEN "dir" ELSE IF p \in files THEN "file" ELSE "none"]

\* every candidate directory exists and the ones in withMarker hold the marker directory
FsWithMarkers(withMarker) == MkFs(RepoDirs \cup {markerOf(d) : d \in withMarker}, {})

ProcessEnvPlain == [PATH |-> "/usr/bin", HOME |-> "/home/u"]
ProcessEnvHostile ==
    [PATH |-> "/usr/bin", HOME |-> "/home/u", GIT_TERMINAL_PROMPT |-> "1", GIT_PAGER |-> "less",
     PAGER |-> "more", GIT_SSH_COMMAND |-> "ssh", GIT_DIR |-> "/elsewhere/.git"]

\* how the git process can end: execFileSync returns its output, or throws
ProcOk(output) == [kind |-> "ok", output |-> output, error |-> [type |-> "undefined", fields |-> EmptyEnv]]
ProcThrow(type, fields) == [kind |-> "throw", output |-> "", error |-> [type |-> type, fields |-> fields]]

ProcOutcomes ==
    {ProcOk(""), ProcOk(" M file.txt\n"), ProcOk("[main abc123] Fix\n 1 file changed\n"),
     ProcThrow("Error", [message |-> "spawnSync git ETIMEDOUT", code |-> "ETIMEDOUT", signal |-> "SIGTERM",
                         status |-> "null", stdout |-> "", stderr |-> ""]),
     ProcThrow("Error", [message |-> "Command failed: git", status |-> "128", stdout |-> "partial",
                         stderr |-> "fatal: bad revision"]),
     ProcThrow("Error", [message |-> "Command failed: git", signal |-> "SIGTERM", stderr |-> "killed"]),
     ProcThrow("object", [status |-> "1"]),
     ProcThrow("Error", [message |-> "Unexpected error"]),
     ProcThrow("object", EmptyEnv),
     ProcThrow("string", [value |-> "String error"]),
     ProcThrow("string", [value |-> ""]),
     ProcThrow("null", EmptyEnv),
     ProcThrow("undefined", EmptyEnv)}

CommitEnv == [GIT_AUTHOR_NAME |-> "Claude", GIT_AUTHOR_EMAIL |-> "claude@shadowgit.local",
              GIT_COMMITTER_NAME |-> "ShadowGit MCP", GIT_COMMITTER_EMAIL |-> "shadowgit-mcp@shadowgit.local"]

RECURSIVE concat(_)
concat(seq) == IF Len(seq) = 0 THEN "" ELSE Head(seq) \o concat(Tail(seq))

SeqsUpTo(S, n) == UNION {[1..k -> S] : k \in 0..n}

\* fragments command strings are put together from
Pieces == {"log", "Log", "commit", " ", "--exec", "=x", "-C", "--Work-Tree", "\"", "\f"}

CommandStrings ==
    {concat(q) : q \in SeqsUpTo(Pieces, MaxPieces)}
        \cup {repeat("a", MAX_COMMAND_LENGTH + 1), "log " \o repeat("-1 ", (MAX_COMMAND_LENGTH - 4) \div 3),
              "log \f" \o repeat("-1 ", (MAX_COMMAND_LENGTH - 4) \div 3),
              "log --exec=rm -rf /", "log\t-5 \"release v1.0\"", "status --GIT-DIR=/x",
              "commit -m \"x\"", "log --ex\fec", "show -C /tmp", "diff '--upload-pack=x'",
              "log --oneline -10", "push origin main", "LOG -1", "commit --upload-pack=x",
              "log --grep \"\"", "log" \o CharSOH \o CharUS \o " --one" \o CharDEL \o "line",
              "log \"--grep=a\tb\nc\rd\"", "log -1 'it\\'s \"a\" b'x", "log \"a\\b\\\\\" c\" 'd"}

\* tokens pre-built argument arrays are put together from
ArgTokens == {"status", "commit", "Show", "-m", "fix it", "--GIT-DIR=/x", "-C", "--work-tree=/x", "$(x) 'y'", ""}

CommandArrays ==
    SeqsUpTo(ArgTokens, MaxArgs)
        \cup {<<"commit", "-m", "fix">>, <<"show", "--stat", "--format=short", "HEAD">>,
              <<"log", "-p", "-c", "x">>}

ExecRepoPaths == {"/r/", "/home/u/p"}

-----------------------------------------------------------------------------
(* State of the specifications *)

NoInput == [kind |-> "none", value |-> ""]
NoResolved == Resolved("none", "", "", <<>>, "none")

\* no SessionClient method called yet
NoSessionCall == [op |-> "none", fetched |-> "none"]
NoSessionRet == [kind |-> "none", value |-> ""]
NoExecCall == [called |-> FALSE, command |-> StrCmd(""), repoPath |-> "", isInternal |-> FALSE,
               additionalEnv |-> EmptyEnv, proc |-> ProcOk("")]
NoExecRet == [kind |-> "none", text |-> "", args |-> <<>>, spawned |-> <<>>]

-----------------------------------------------------------------------------
(* SpecExec: GitExecutor.execute called once with any command, trust flag and path *)

InitExec ==
    /\ repositories = <<>>
    /\ fs \in {FsWithMarkers({"/r"}), FsWithMarkers({"/home/u/p"})}
    /\ processEnv = ProcessEnvHostile
    /\ ecall = NoExecCall
    /\ eret = NoExecRet
    /\ rcall = NoInput
    /\ rret = NoResolved
    /\ scall = NoSessionCall
    /\ sret = NoSessionRet
    /\ reqs = <<>>
    /\ execLog = <<>>

\* one call of execute: rejected before the process starts, or ended as the process ends
ExecuteCall(command, repoPath, isInternal, additionalEnv) ==
    \E c \in {checked(command, repoPath, isInternal, fs)} :
    /\ \E proc \in (IF c.rejection # "" THEN {ProcOk("")} ELSE ProcOutcomes) :
          /\ ecall' = [called |-> TRUE, command |-> command, repoPath |-> repoPath,
                       isInternal |-> isInternal, additionalEnv |-> additionalEnv, proc |-> proc]
          /\ eret' = executeChecked(c, repoPath, additionalEnv, processEnv, proc)
    /\ UNCHANGED <<repositories, fs, processEnv, rcall, rret, scall, sret, reqs, execLog>>

ExecuteString ==
    /\ ~ecall.called
    /\ \E s \in CommandStrings, repoPath \in ExecRepoPaths, isInternal \in BOOLEAN :
          ExecuteCall(StrCmd(s), repoPath, isInternal, EmptyEnv)

ExecuteArray ==
    /\ ~ecall.called
    /\ \E a \in CommandArrays, repoPath \in ExecRepoPaths, isInternal \in BOOLEAN,
          additionalEnv \in {EmptyEnv, CommitEnv} :
          ExecuteCall(ArrCmd(a), repoPath, isInternal, additionalEnv)

NextExec == ExecuteString \/ ExecuteArray

SpecExec == InitExec /\ [][NextExec]_vars


-----------------------------------------------------------------------------
(* Properties of GitExecutor.execute, checked under SpecExec *)

\* the argument vector of the call: the array as passed, or the tokens of the string
Argv == IF ecall.command.isArray THEN ecall.command.arr ELSE eret.args

\* the call returned an error text and execFileSync was never called
Rejected == eret.kind = "return" /\ startsWith(eret.text, "Error:") /\ eret.spawned = <<>>

\* token t, lower-cased, equals one of pats or starts with it followed by '='
MatchesPattern(t, pats) ==
    \E l \in {toLowerCase(t)} : \E p \in pats : l = p \/ startsWith(l, p \o "=")

\* C1: an external call of execute whose first token is not, letter for letter, a member
\* of SAFE_COMMANDS returns a rejection and never starts the git binary.
C1_ExternalNonWhitelistedRejected ==
    (ecall.called /\ ~ecall.isInternal /\ Len(Argv) > 0 /\ Argv[1] \notin SAFE_COMMANDS)
        => Rejected

\* C1 witness: the external command "Log -1"-like call whose first token differs from a
\* whitelisted one only in case is rejected by the whitelist, which names it
C1_Witness ==
    /\ ecall.called /\ ~ecall.isInternal /\ ~ecall.command.isArray
    /\ Len(Argv) > 0 /\ Argv[1] = "Log"
    /\ startsWith(eret.text, "Error: Command 'Log' is not allowed.")
    /\ eret.spawned = <<>>

\* C2: whatever the trust flag and the form of the command, a call one of whose tokens,
\* lower-cased, equals a DANGEROUS_PATTERNS entry or starts with the entry and '=' is
\* rejected and never starts the git binary.
C2_DangerousTokenRejected ==
    (ecall.called
        /\ \E i \in 1..Len(Argv) :
              MatchesPattern(Argv[i], {DANGEROUS_PATTERNS[k] : k \in 1..Len(DANGEROUS_PATTERNS)}))
        => Rejected

\* C2 witness: an internal pre-built array holding an upper-case '=' form is rejected
C2_Witness ==
    /\ ecall.called /\ ecall.isInternal /\ ecall.command.isArray
    /\ ecall.command.arr = <<"commit", "--GIT-DIR=/x">>
    /\ eret.text = "Error: Command contains potentially dangerous arguments."
    /\ eret.spawned = <<>>

\* C3: every start of the git binary has the arguments '--git-dir=' and '--work-tree='
\* first, computed from repoPath alone (the marker path as path.join gives it), runs in
\* repoPath, and passes no caller token that is a location override (--git-dir,
\* --work-tree, -C; exact or '=' form; any letter case).
C3_LocationFromRepoPathOnly ==
    \A n \in 1..Len(eret.spawned) :
        LET sp == eret.spawned[n] IN
        /\ Len(sp.args) >= 2
        /\ sp.args[1] = "--git-dir=" \o join(ecall.repoPath, SHADOWGIT_DIR)
        /\ sp.args[2] = "--work-tree=" \o ecall.repoPath
        /\ sp.cwd = ecall.repoPath
        /\ \A i \in 3..Len(sp.args) : ~MatchesPattern(sp.args[i], {"--git-dir", "--work-tree", "-c"})

\* C3 witness: the binary was started with caller tokens after the two location arguments
C3_Witness ==
    /\ Len(eret.spawned) = 1
    /\ ecall.repoPath = "/r/"
    /\ eret.spawned[1].args = <<"--git-dir=/r/.shadowgit.git", "--work-tree=/r/", "log", "--oneline", "-10">>

\* C10: execute never throws: every call returns a non-empty text.
C10_ExecuteAlwaysReturnsText ==
    ecall.called => (eret.kind = "return" /\ eret.text # "")

\* C10 witness: execFileSync threw a value that is not an Error and a text came back
C10_Witness ==
    /\ ecall.called /\ Len(eret.spawned) = 1
    /\ eret.kind = "return" /\ eret.text = "Error: String error"

\* the git process was started by the call and execFileSync threw
ProcessFailed == ecall.called /\ Len(eret.spawned) = 1 /\ ecall.proc.kind = "throw"

\* the thrown value is an object whose code is ETIMEDOUT or whose signal is SIGTERM
IsTimeout(e) ==
    e.type \in {"Error", "object"}
        /\ (field(e, "code") = "ETIMEDOUT" \/ field(e, "signal") = "SIGTERM")

\* the thrown value is an object that has a stderr, stdout or status property
HasDetails(e) ==
    e.type \in {"Error", "object"} /\ \E f \in {"stderr", "stdout", "status"} : f \in DOMAIN e.fields

\* C11: a value thrown by the git process is classified in a fixed order, first match
\* wins: a timeout (code ETIMEDOUT or signal SIGTERM) gives the timeout text naming
\* TIMEOUT_MS even when stderr, stdout or status are present; otherwise a value with
\* stderr, stdout or status gives the structured git failure; every other thrown value
\* gives the generic 'Error: <value>'.
C11_FailureClassification ==
    ProcessFailed =>
        LET e == ecall.proc.error IN
        /\ eret.kind = "return"
        /\ IsTimeout(e) =>
              /\ startsWith(eret.text, "Error: Command timed out")
              /\ includes(eret.text, ToString(TIMEOUT_MS))
        /\ (~IsTimeout(e) /\ HasDetails(e)) =>
              startsWith(eret.text, "Error executing git command:\n")
        /\ (~IsTimeout(e) /\ ~HasDetails(e)) => eret.text = "Error: " \o toStr(e)

\* C11 witness: a process killed by SIGTERM that left text on stderr is reported as a
\* timeout, not as a structured failure
C11_Witness ==
    /\ ProcessFailed
    /\ field(ecall.proc.error, "signal") = "SIGTERM" /\ field(ecall.proc.error, "stderr") = "killed"
    /\ eret.text = "Error: Command timed out after 10000ms."

\* the git process was started by the call and execFileSync returned its output
ProcessSucceeded == ecall.called /\ Len(eret.spawned) = 1 /\ ecall.proc.kind = "ok"

\* C12: when the git process succeeds, execute returns its output unchanged, except
\* that an empty output is returned as '(empty output)'; a successful call never
\* returns the empty string.
C12_SuccessOutputVerbatim ==
    ProcessSucceeded =>
        /\ eret.kind = "return"
        /\ eret.text # ""
        /\ ecall.proc.output # "" => eret.text = ecall.proc.output
        /\ ecall.proc.output = "" => eret.text = "(empty output)"

\* C12 witness: a git process that printed nothing gives the placeholder text
C12_Witness ==
    /\ ProcessSucceeded
    /\ ecall.proc.output = "" /\ eret.text = "(empty output)"

\* the first position from i on where s holds a character of the set stops, Len(s) + 1
\* when there is none
NextOf(s, i, stops) ==
    LET at == {k \in i..Len(s) : CharAt(s, k) \in stops}
    IN  IF at = {} THEN Len(s) + 1 ELSE CHOOSE k \in at : \A j \in at : k <= j

\* the quoted span of s that opens before position i with quote character q: its text
\* (backslash + q read as q, everything else literal) and the position after its end
RECURSIVE QuotedSpan(_, _, _)
QuotedSpan(s, i, q) ==
    LET j == NextOf(s, i, {q, "\\"})
        lit == SubSeq(s, i, j - 1)
    IN  IF j > Len(s) THEN [text |-> lit, next |-> j]
        ELSE IF CharAt(s, j) = q THEN [text |-> lit, next |-> j + 1]
        ELSE IF j < Len(s) /\ CharAt(s, j + 1) = q
        THEN LET r == QuotedSpan(s, j + 2, q) IN [text |-> lit \o q \o r.text, next |-> r.next]
        ELSE LET r == QuotedSpan(s, j + 1, q) IN [text |-> lit \o "\\" \o r.text, next |-> r.next]

\* the word of s that starts at position i: its quoted and unquoted pieces joined, and
\* the position of the whitespace that ends it
RECURSIVE WordAt(_, _)
WordAt(s, i) ==
    LET j == NextOf(s, i, {" ", "\t", "\n", "\r", "\"", "'"})
        lit == SubSeq(s, i, j - 1)
    IN  IF j > Len(s) \/ isWhitespace(CharAt(s, j)) THEN [text |-> lit, next |-> j]
        ELSE LET span == QuotedSpan(s, j + 1, CharAt(s, j))
                 r == WordAt(s, span.next)
             IN  [text |-> lit \o span.text \o r.text, next |-> r.next]

\* the first n words of s from position i on (all of them when there are fewer), and
\* the position after the last of them
RECURSIVE WordsFrom(_, _, _)
WordsFrom(s, i, n) ==
    LET at == {k \in i..Len(s) : ~isWhitespace(CharAt(s, k))}
    IN  IF n = 0 \/ at = {} THEN [words |-> <<>>, next |-> i]
        ELSE IF n = 1
        THEN LET w == WordAt(s, CHOOSE k \in at : \A j \in at : k <= j)
             IN  [words |-> <<w.text>>, next |-> w.next]
        ELSE LET left == WordsFrom(s, i, n \div 2)
                 right == WordsFrom(s, left.next, n - n \div 2)
             IN  [words |-> left.words \o right.words, next |-> right.next]

\* quote-aware word splitting of s
Words(s) == WordsFrom(s, 1, Len(s)).words

\* the call tokenized a command string
Tokenized == ecall.called /\ ~ecall.command.isArray /\ ~tooLong(ecall.command, ecall.isInternal)

\* C13: the tokens of a command string are its quote-aware word splitting: outside
\* quotes whitespace ends the token and ' or " opens a span; inside a span backslash
\* plus the same quote is one literal quote, the same quote closes the span, anything
\* else is literal; delimiters are dropped and adjacent pieces join into one token.
C13_TokensAreQuoteAwareWords ==
    Tokenized => eret.args = Words(sanitize(ecall.command.str))

\* the characters with code below 0x20 and 0x7F, among those a command may hold
ControlChars == {CharSOH, "\t", "\n", CharVT, "\f", "\r", CharUS, CharDEL}

\* some token of args holds a character of chars
TokenHolds(args, chars) ==
    \E n \in 1..Len(args) : \E i \in 1..Len(args[n]) : CharAt(args[n], i) \in chars

\* C14 as stated: no token of a command string holds a character with code below 0x20,
\* none excluded, or the character 0x7F.
C14_NoControlCharInTokens ==
    Tokenized => ~TokenHolds(eret.args, ControlChars)

\* C14, amended: no token of a command string holds a character with code below 0x20
\* other than tab, line feed and carriage return, or the character 0x7F; these three
\* are kept by the stripping and a token holds them when they stand inside quotes.
C14_NoStrippedCharInTokens ==
    Tokenized => ~TokenHolds(eret.args, ControlChars \ {"\t", "\n", "\r"})

\* C14 witness: low control bytes and 0x7F inside the words of a command are absent
\* from its tokens
C14_Witness ==
    /\ Tokenized
    /\ ecall.command.str = "log" \o CharSOH \o CharUS \o " --one" \o CharDEL \o "line"
    /\ eret.args = <<"log", "--oneline">>

\* the call was answered with the length rejection
RejectedForLength == startsWith(eret.text, "Error: Command too long")

\* C15: the length limit applies to the raw command string of an external caller only:
\* an external string of more than MAX_COMMAND_LENGTH characters, counted before control
\* characters are stripped, is rejected with 'Command too long', is not tokenized and
\* never starts the git binary; a string of at most MAX_COMMAND_LENGTH characters, an
\* internal call and a pre-built array are never rejected for length.
C15_LengthLimitExternalRawOnly ==
    ecall.called =>
        IF ~ecall.command.isArray /\ ~ecall.isInternal /\ Len(ecall.command.str) > MAX_COMMAND_LENGTH
        THEN RejectedForLength /\ eret.args = <<>> /\ eret.spawned = <<>>
        ELSE ~RejectedForLength

\* C15 witness: an external string of exactly MAX_COMMAND_LENGTH characters passed the
\* length check and the git binary was started
C15_Witness ==
    /\ ecall.called /\ ~ecall.command.isArray /\ ~ecall.isInternal
    /\ Len(ecall.command.str) = MAX_COMMAND_LENGTH
    /\ Len(eret.spawned) = 1

\* the call was answered with the dangerous-argument rejection
RejectedAsDangerous == eret.text = "Error: Command contains potentially dangerous arguments."

\* C21: execute applies its checks in a fixed order and returns the outcome of the
\* first that fails: the length limit of an external string, the empty argument
\* vector, the blacklist on every token, the whitelist on the first token of an
\* external call, the marker directory under repoPath; git is started only when all
\* of them pass.
C21_ChecksInFixedOrder ==
    ecall.called =>
        IF ~ecall.command.isArray /\ ~ecall.isInternal /\ Len(ecall.command.str) > MAX_COMMAND_LENGTH
        THEN RejectedForLength /\ eret.spawned = <<>>
        ELSE IF Len(Argv) = 0
        THEN eret.text = "Error: No command provided." /\ eret.spawned = <<>>
        ELSE IF \E i \in 1..Len(Argv) :
                   MatchesPattern(Argv[i], {DANGEROUS_PATTERNS[k] : k \in 1..Len(DANGEROUS_PATTERNS)})
        THEN RejectedAsDangerous /\ eret.spawned = <<>>
        ELSE IF ~ecall.isInternal /\ Argv[1] \notin SAFE_COMMANDS
        THEN startsWith(eret.text, "Error: Command '" \o Argv[1] \o "' is not allowed.")
                /\ eret.spawned = <<>>
        ELSE IF fs[join(ecall.repoPath, SHADOWGIT_DIR)] = "none"
        THEN startsWith(eret.text, "Error: Not a ShadowGit repository.") /\ eret.spawned = <<>>
        ELSE Len(eret.spawned) = 1

\* C21 witness: an external command that is not whitelisted and holds a blacklisted
\* token, for a path without marker, is answered with the dangerous-argument rejection
C21_Witness ==
    /\ ecall.called /\ ~ecall.isInternal /\ ~ecall.command.isArray
    /\ ecall.command.str = "commit --upload-pack=x"
    /\ fs[join(ecall.repoPath, SHADOWGIT_DIR)] = "none"
    /\ RejectedAsDangerous /\ eret.spawned = <<>>

\* the text of the whitelist rejection for the subcommand gitCommand
WhitelistRejection(gitCommand) ==
    "Error: Command '" \o gitCommand
        \o "' is not allowed. Only read-only commands are permitted.\n\nAllowed commands: "
        \o "log, show, diff, status, describe, rev-parse, ls-files, ls-tree, cat-file, "
        \o "show-branch, shortlog, rev-list, blame"

\* C22: the rejection texts do not reveal the rule that fired: every call rejected
\* because of a blacklisted token gets one and the same text, whichever token and
\* pattern matched, and the text of a whitelist rejection is determined by the first
\* token, which it names, and the fixed whitelist.
C22_RejectionTextsRevealNoRule ==
    (ecall.called /\ eret.spawned = <<>> /\ Len(Argv) > 0 /\ ~RejectedForLength) =>
        IF \E i \in 1..Len(Argv) :
              MatchesPattern(Argv[i], {DANGEROUS_PATTERNS[k] : k \in 1..Len(DANGEROUS_PATTERNS)})
        THEN RejectedAsDangerous
        ELSE (~ecall.isInternal /\ Argv[1] \notin SAFE_COMMANDS) =>
                eret.text = WhitelistRejection(Argv[1])

\* C22 witness: a quoted blacklisted option is rejected with the constant text, which
\* names neither the option nor its pattern
C22_Witness ==
    /\ ecall.called /\ ~ecall.command.isArray
    /\ ecall.command.str = "diff '--upload-pack=x'"
    /\ RejectedAsDangerous /\ ~includes(eret.text, "upload-pack")

\* the git binary was started
Started == ecall.called /\ eret.spawned # <<>>


-----------------------------------------------------------------------------
(* SpecResolve: resolveRepoPath called once, on any snapshot readJsonFile can load *)

NullEntry == [kind |-> "null", fields |-> EmptyEnv]
StringEntry == [kind |-> "string", fields |-> EmptyEnv]

\* what an element of repos.json can be: well-formed entries (one name twice, a relative
\* path, tildes first and elsewhere) and the malformed shapes loading does not filter out
SnapshotEntries ==
    {RepoEntry("app", "/r"), RepoEntry("app", "rel"), RepoEntry("home", "~/p"), RepoEntry("t", "~"),
     RepoEntry("mid", "/r/~"), RepoEntry("tx", "~x"), RepoEntry("/r", "/home/u/p"),
     NullEntry, StringEntry,
     [kind |-> "object", fields |-> [name |-> "np"]],
     [kind |-> "object", fields |-> [path |-> "/r"]]}

Snapshots == SeqsUpTo(SnapshotEntries, MaxRepos)

ResolveFs ==
    {MkFs({}, {}), FsWithMarkers({}), FsWithMarkers(RepoDirs), FsWithMarkers({"/r"}),
     FsWithMarkers({"rel"}), FsWithMarkers({"/home/u/p"}), FsWithMarkers({"/r/~", "~x", "/home/u"})}

StringInput(v) == [kind |-> "string", value |-> v]

ResolveInputs ==
    {[kind |-> "null", value |-> ""], [kind |-> "undefined", value |-> ""]}
        \cup {StringInput(v) : v \in
                {"", "app", "App", "home", "t", "mid", "tx", "np", "nope", "rel", "./rel",
                 "/r", "/r/", "/x/../r", "/home/u/p/..", "~", "~/p", "~x", "/r/~", "/r//~",
                 "C:\\r", "\\\\srv\\r", "\\r"}}

InitResolve ==
    /\ repositories \in Snapshots
    /\ fs \in ResolveFs
    /\ processEnv = ProcessEnvPlain
    /\ ecall = NoExecCall
    /\ eret = NoExecRet
    /\ rcall = NoInput
    /\ rret = NoResolved
    /\ scall = NoSessionCall
    /\ sret = NoSessionRet
    /\ reqs = <<>>
    /\ execLog = <<>>

ResolveCall ==
    /\ rcall.kind = "none"
    /\ \E input \in ResolveInputs :
          /\ rcall' = input
          /\ rret' = resolveRepoPath(input, repositories, fs)
    /\ UNCHANGED <<repositories, fs, processEnv, ecall, eret, scall, sret, reqs, execLog>>

NextResolve == ResolveCall

SpecResolve == InitResolve /\ [][NextResolve]_vars

-----------------------------------------------------------------------------
(* Properties of resolveRepoPath, checked under SpecResolve *)

\* p names a directory of the filesystem
IsDirectory(p) ==
    \E q \in {stripTrailingSlash(normalize(p))} : q \in DOMAIN fs /\ fs[q] = "dir"

\* the snapshot entries that are objects named as the input
NamedAsInput == {i \in 1..Len(repositories) :
                    /\ repositories[i].kind = "object"
                    /\ "name" \in DOMAIN repositories[i].fields
                    /\ repositories[i].fields["name"] = rcall.value}

FirstNamedAsInput == CHOOSE i \in NamedAsInput : \A j \in NamedAsInput : i <= j

NonEmptyStringInput == rcall.kind = "string" /\ rcall.value # ""

\* C5: every path resolveRepoPath returns is an absolute path of a directory, whether
\* the input matched a repository name or was taken as a path.
C5_ResultIsAbsoluteDirectory ==
    rret.kind = "path" => (isAbsolute(rret.value) /\ IsDirectory(rret.value))

\* C6: resolveRepoPath never throws, whatever the input and the loaded snapshot.
C6_ResolveNeverThrows == rret.kind # "throw"

\* C7: a path is returned only if the marker was probed inside it during the call and
\* exists; an input naming a repository whose expanded path lacks the marker gives null.
C7_MarkerConfirmed ==
    /\ rret.kind = "path" =>
          /\ \E k \in 1..Len(rret.probes) : rret.probes[k] = join(rret.value, SHADOWGIT_DIR)
          /\ existsSync(fs, join(rret.value, SHADOWGIT_DIR))
    /\ (NonEmptyStringInput /\ NamedAsInput # {}
          /\ "path" \in DOMAIN repositories[FirstNamedAsInput].fields
          /\ ~existsSync(fs, join(expandTilde(repositories[FirstNamedAsInput].fields["path"], homedir),
                                  SHADOWGIT_DIR)))
          => rret.kind = "null"

\* C8: an input that names no repository and neither starts with '/', '~' or two
\* backslashes nor contains ':' resolves to null without any existence check.
C8_BareTokenIsNull ==
    (NonEmptyStringInput /\ NamedAsInput = {}
        /\ ~startsWith(rcall.value, "/") /\ ~startsWith(rcall.value, "~")
        /\ ~includes(rcall.value, ":") /\ ~startsWith(rcall.value, "\\\\"))
        => (rret.kind = "null" /\ rret.probes = <<>>)

\* the string the tilde step of the call worked on: the configured path of the matched
\* entry in the name branch, the input itself in the path branch
TildeSource ==
    IF rret.branch = "name" THEN repositories[FirstNamedAsInput].fields["path"] ELSE rcall.value

\* C9: in both branches '~' is replaced by the home directory only in the strings "~"
\* and "~/rest"; any other string, one holding '~' later on included, leaves the tilde
\* step unchanged (a leading '~' of another form ends the path branch with null), and
\* the result is that string (the path branch normalizes it).
C9_TildeOnlyLeading ==
    (rret.branch \in {"name", "path"} /\ rret.kind # "throw") =>
        /\ TildeSource = "~" => rret.expanded = homedir
        /\ startsWith(TildeSource, "~/")
              => rret.expanded = normalize(homedir \o "/" \o slice(TildeSource, 2))
        /\ (rret.branch = "path" /\ startsWith(TildeSource, "~") /\ TildeSource # "~"
              /\ ~startsWith(TildeSource, "~/"))
              => (rret.kind = "null" /\ rret.probes = <<>>)
        /\ (TildeSource # "~" /\ ~startsWith(TildeSource, "~/")
              /\ ~(rret.branch = "path" /\ startsWith(TildeSource, "~")))
              => rret.expanded = TildeSource
        /\ rret.kind = "path"
              => rret.value = (IF rret.branch = "name" THEN rret.expanded ELSE normalize(rret.expanded))

\* C9 witness: a configured path with '~' as a later segment is returned as it is
C9_Witness ==
    /\ rcall = StringInput("mid") /\ rret.branch = "name"
    /\ TildeSource = "/r/~"
    /\ rret.kind = "path" /\ rret.value = "/r/~"

\* C23: an input equal, letter for letter, to the name of a snapshot entry is resolved
\* through the first such entry, before any path interpretation: the result is that
\* entry's expanded path when its marker exists and null otherwise, with no probe of a
\* later duplicate or of the input as a path; an input that equals no name (one that
\* differs in case included) never takes the name branch.
C23_FirstExactNameWins ==
    NonEmptyStringInput =>
        IF NamedAsInput # {}
        THEN /\ rret.branch = "name"
             /\ "path" \in DOMAIN repositories[FirstNamedAsInput].fields
             /\ LET repoPath == expandTilde(repositories[FirstNamedAsInput].fields["path"], homedir)
                IN  /\ rret.probes = <<join(repoPath, SHADOWGIT_DIR)>>
                    /\ IF existsSync(fs, join(repoPath, SHADOWGIT_DIR))
                       THEN rret.kind = "path" /\ rret.value = repoPath
                       ELSE rret.kind = "null"
        ELSE rret.branch # "name"

-----------------------------------------------------------------------------
(* utils/response-utils and the values handlers work on *)

\* a property value of a tool call's arguments: a string, or something that is not one
Str(v) == [type |-> "string", value |-> v]
NotStr == [type |-> "number", value |-> "7"]

\* request.params.arguments: an object with the properties present, or undefined
Args(f) == [kind |-> "object", fields |-> f]
NoArgs == [kind |-> "undefined", fields |-> EmptyEnv]

\* 'f' in args && typeof args.f === 'string'
isString(args, f) == args.kind = "object" /\ f \in DOMAIN args.fields /\ args.fields[f].type = "string"

\* args.f || '' for an optional string property
optional(args, f) == IF isString(args, f) THEN args.fields[f].value ELSE ""

\* MCPToolResponse: the text of its single content item and the success flag, "absent"
\* when the property is not set
NoResponse == [text |-> "", success |-> "none"]

createTextResponse(text) == [text |-> text, success |-> "absent"]

createErrorResponse(error, details) ==
    [text |-> IF details # "" THEN error \o "\n\n" \o details ELSE error, success |-> "false"]

\* `${r.name}` of a snapshot element: a missing property prints as undefined
propertyText(r, f) == IF f \in DOMAIN r.fields THEN r.fields[f] ELSE "undefined"

\* repos.map(r => ...) reads r.name, which throws a TypeError on a null element
mapThrows(repos) == \E i \in 1..Len(repos) : repos[i].kind = "null"

formatRepositoryList(repos) ==
    IF Len(repos) = 0 THEN "No repositories available."
    ELSE joinWith([i \in 1..Len(repos) |->
                      "  " \o propertyText(repos[i], "name") \o ":\n    Path: " \o propertyText(repos[i], "path")],
                  "\n\n")

createRepoNotFoundResponse(repoName, availableRepos) ==
    createErrorResponse(
        "Error: Repository '" \o repoName \o "' not found."
            \o (IF Len(availableRepos) > 0
                THEN "\n\nAvailable repositories:\n" \o formatRepositoryList(availableRepos)
                ELSE "\n\nNo repositories found. Please add repositories to ShadowGit first."),
        "")

\* the catch block of the dispatcher: a response without the success property
dispatcherCatch(name, error) == createTextResponse("Error executing " \o name \o ": " \o error)

TypeErrorText == "TypeError: Cannot read properties of null"

Rule == repeat("=", 50)

-----------------------------------------------------------------------------
(* core/session-client: SessionClient *)

\* a property of the parsed response body: a boolean, a string, a number, or left out
JsonTrue == [type |-> "boolean", value |-> "true"]
JsonFalse == [type |-> "boolean", value |-> "false"]
Absent == [type |-> "undefined", value |-> ""]

\* what an if or && makes of a value
truthy(v) ==
    CASE v.type = "boolean" -> v.value = "true"
      [] v.type = "string" -> v.value # ""
      [] v.type = "number" -> v.value # "0"
      [] OTHER -> FALSE

\* how fetch can end: a response (ok flag; the body an object with its properties, the
\* literal null, or not JSON) or a rejection (an Error with a name)
FetchResponse(ok, body, success, sessionId) ==
    [kind |-> "response", ok |-> ok, body |-> body, success |-> success, sessionId |-> sessionId,
     name |-> ""]
FetchRejected(name) ==
    [kind |-> "reject", ok |-> FALSE, body |-> "invalid", success |-> Absent, sessionId |-> Absent,
     name |-> name]

\* how a SessionClient method ends: its promise resolves with a value ("throw": it rejects)
Resolves(value) == [kind |-> "return", value |-> value]

\* a startSession that does not look at response.ok
startSession_IgnoresOk(fetched) ==
    IF fetched.kind = "reject" THEN Resolves("")
    ELSE IF fetched.body # "object" THEN Resolves("")
    ELSE IF truthy(fetched.success) /\ truthy(fetched.sessionId)
         THEN Resolves(fetched.sessionId.value)
         ELSE Resolves("")

\* SessionClient.startSession: resolves with the session id, or with "" for null
startSession(fetched) ==
    IF fetched.kind = "reject" THEN Resolves("")            \* catch
    ELSE IF ~fetched.ok THEN Resolves("")
    ELSE IF fetched.body # "object" THEN Resolves("")       \* json() rejects, or a
                                                             \* property of null is read: catch
    ELSE IF truthy(fetched.success) /\ truthy(fetched.sessionId)
         THEN Resolves(fetched.sessionId.value)
         ELSE Resolves("")

\* SessionClient.endSession
endSession(fetched) ==
    IF fetched.kind = "reject" THEN Resolves(FALSE)
    ELSE IF ~fetched.ok THEN Resolves(FALSE)
    ELSE IF fetched.body # "object" THEN Resolves(FALSE)
    ELSE IF truthy(fetched.success) THEN Resolves(TRUE)
    ELSE Resolves(FALSE)

\* SessionClient.isHealthy
isHealthy(fetched) ==
    IF fetched.kind = "reject" THEN Resolves(FALSE) ELSE Resolves(fetched.ok)

-----------------------------------------------------------------------------
(* SpecSession: one SessionClient method called once, fetch ending in any way *)

\* the responses and rejections fetch can end with: any status, any body (the properties
\* of any JSON type or left out), a network error, the abort of the timeout
SessionFetchOutcomes ==
    {FetchResponse(ok, "object", success, sessionId) :
        ok \in BOOLEAN,
        success \in {JsonTrue, JsonFalse, Absent, NotStr, Str("no")},
        sessionId \in {Str("s1"), Str(""), Absent, NotStr}}
    \cup {FetchResponse(ok, body, Absent, Absent) : ok \in BOOLEAN, body \in {"null", "invalid"}}
    \cup {FetchRejected("TypeError"), FetchRejected("AbortError")}

InitSession ==
    /\ repositories = <<>>
    /\ fs = FsWithMarkers({"/r"})
    /\ processEnv = ProcessEnvPlain
    /\ ecall = NoExecCall
    /\ eret = NoExecRet
    /\ rcall = NoInput
    /\ rret = NoResolved
    /\ scall = NoSessionCall
    /\ sret = NoSessionRet
    /\ reqs = <<>>
    /\ execLog = <<>>

SessionFrame == UNCHANGED <<repositories, fs, processEnv, ecall, eret, rcall, rret, reqs, execLog>>

SessionStart ==
    /\ scall.op = "none"
    /\ \E fetched \in SessionFetchOutcomes :
          /\ scall' = [op |-> "startSession", fetched |-> fetched]
          /\ sret' = startSession(fetched)
    /\ SessionFrame

SessionEnd ==
    /\ scall.op = "none"
    /\ \E fetched \in SessionFetchOutcomes :
          /\ scall' = [op |-> "endSession", fetched |-> fetched]
          /\ sret' = endSession(fetched)
    /\ SessionFrame

SessionHealth ==
    /\ scall.op = "none"
    /\ \E fetched \in SessionFetchOutcomes :
          /\ scall' = [op |-> "isHealthy", fetched |-> fetched]
          /\ sret' = isHealthy(fetched)
    /\ SessionFrame

NextSession == SessionStart \/ SessionEnd \/ SessionHealth

SpecSession == InitSession /\ [][NextSession]_vars

\* the response is ok and its body is an object
OkObject(fetched) == fetched.kind = "response" /\ fetched.ok /\ fetched.body = "object"

\* C27 as stated: SessionClient never rejects; startSession returns a session id only when
\* the response is ok and its body has success = true and a non-empty sessionId, and null
\* in every other case; endSession returns true only when the response is ok with
\* success = true; isHealthy returns the ok flag, or false on any error.
C27_SuccessMustBeTrue ==
    scall.op # "none" =>
        /\ sret.kind = "return"
        /\ scall.op = "startSession" =>
              sret.value = IF OkObject(scall.fetched) /\ scall.fetched.success = JsonTrue
                              /\ truthy(scall.fetched.sessionId)
                           THEN scall.fetched.sessionId.value ELSE ""
        /\ scall.op = "endSession" =>
              sret.value = (OkObject(scall.fetched) /\ scall.fetched.success = JsonTrue)
        /\ scall.op = "isHealthy" =>
              sret.value = (scall.fetched.kind = "response" /\ scall.fetched.ok)

\* C27, amended: SessionClient never rejects; startSession returns the body's sessionId
\* exactly when the response is ok and its body is an object whose success and sessionId
\* are both truthy (success need not be the boolean true), and null in every other case;
\* endSession returns true exactly when the response is ok with a truthy success;
\* isHealthy returns the ok flag, or false on any error.
C27_SessionClientNeverRejects ==
    scall.op # "none" =>
        /\ sret.kind = "return"
        /\ scall.op = "startSession" =>
              sret.value = IF OkObject(scall.fetched) /\ truthy(scall.fetched.success)
                              /\ truthy(scall.fetched.sessionId)
                           THEN scall.fetched.sessionId.value ELSE ""
        /\ scall.op = "endSession" =>
              sret.value = (OkObject(scall.fetched) /\ truthy(scall.fetched.success))
        /\ scall.op = "isHealthy" =>
              sret.value = (scall.fetched.kind = "response" /\ scall.fetched.ok)

\* startSession gave the id of a body whose success is a truthy value other than true
C27_Witness ==
    /\ scall.op = "startSession"
    /\ OkObject(scall.fetched) /\ scall.fetched.success = NotStr
    /\ sret = Resolves("s1")

-----------------------------------------------------------------------------
(* handlers: the text each handler computes *)

\* ListReposHandler.handle; the fixed workflow instructions of the text are left out
listRepos(repos) ==
    IF Len(repos) = 0
    THEN createTextResponse("No repositories found in ShadowGit.")
    ELSE IF mapThrows(repos)
    THEN dispatcherCatch("list_repos", TypeErrorText)
    ELSE createTextResponse("**ShadowGit MCP Server Connected**\n" \o Rule
            \o "\n\n**Available Repositories (" \o ToString(Len(repos)) \o ")**\n"
            \o formatRepositoryList(repos)
            \o "\n\nstart_session({repo: \"" \o propertyText(repos[1], "name") \o "\", description: \"your task\"})")

isGitCommandArgs(args) == isString(args, "repo") /\ isString(args, "command")

isValidArgs(args) == isString(args, "repo") /\ isString(args, "title")

isStartSessionArgs(args) == isString(args, "repo") /\ isString(args, "description")

isEndSessionArgs(args) == isString(args, "sessionId")

\* GitHandler.handle calls execute(args.command, repoPath): isInternal keeps its default
gitCommandTrust_Internal == TRUE

gitCommandTrust == FALSE

reminderCommands == {"diff", "status", "log", "blame"}

showHints(penv) == ~("SHADOWGIT_HINTS" \in DOMAIN penv /\ penv["SHADOWGIT_HINTS"] = "0")

needsReminder(penv, command) ==
    showHints(penv) /\ \E lower \in {toLowerCase(command)} : \E cmd \in reminderCommands : includes(lower, cmd)

\* the response of git_command once execute returned output
gitCommandResponse(penv, repo, command, output) ==
    IF needsReminder(penv, command)
    THEN createTextResponse(output \o "\n\n" \o Rule \o "\n**Planning to Make Changes?**\n" \o Rule
            \o "\n\nstart_session({repo: \"" \o repo \o "\", description: \"your task\"})"
            \o "\ncheckpoint({repo: \"" \o repo \o "\", title: \"commit message\"})")
    ELSE createTextResponse(output)

\* the response of checkpoint when the repository did not resolve
checkpointNotFound(repo, repos) ==
    IF Len(repos) = 0
    THEN createErrorResponse("Error: No repositories found. Please add repositories to ShadowGit first.", "")
    ELSE IF mapThrows(repos)
    THEN dispatcherCatch("checkpoint", TypeErrorText)
    ELSE createErrorResponse(
            "Error: Repository '" \o repo \o "' not found.",
            "Available repositories:\n"
                \o joinWith([i \in 1..Len(repos) |->
                                "  - " \o propertyText(repos[i], "name") \o ": " \o propertyText(repos[i], "path")],
                            "\n"))

\* the response of git_command when the repository did not resolve
gitCommandNotFound(repo, repos) ==
    IF mapThrows(repos) THEN dispatcherCatch("git_command", TypeErrorText)
    ELSE createRepoNotFoundResponse(repo, repos)

authorOf(args) == IF optional(args, "author") # "" THEN optional(args, "author") ELSE "AI Assistant"

\* fullMessage
fullMessage(args) ==
    args.fields["title"].value
        \o (IF optional(args, "message") # "" THEN "\n\n" \o optional(args, "message") ELSE "")
        \o "\n\nAuthor: " \o authorOf(args) \o " (via ShadowGit MCP)"

\* s.replace(/\s+/g, '-')
RECURSIVE dashWhitespace(_, _, _)
dashWhitespace(s, i, inRun) ==
    IF i > Len(s) THEN ""
    ELSE IF isWhitespace(CharAt(s, i))
    THEN (IF inRun THEN "" ELSE "-") \o dashWhitespace(s, i + 1, TRUE)
    ELSE CharAt(s, i) \o dashWhitespace(s, i + 1, FALSE)

commitEnv(args) ==
    [GIT_AUTHOR_NAME |-> authorOf(args),
     GIT_AUTHOR_EMAIL |-> dashWhitespace(toLowerCase(authorOf(args)), 1, FALSE) \o "@shadowgit.local",
     GIT_COMMITTER_NAME |-> "ShadowGit MCP",
     GIT_COMMITTER_EMAIL |-> "shadowgit-mcp@shadowgit.local"]

\* length of the run of characters of chars that starts at position i of s
RECURSIVE runOf(_, _, _)
runOf(s, i, chars) ==
    IF i <= Len(s) /\ includes(chars, CharAt(s, i)) THEN 1 + runOf(s, i + 1, chars) ELSE 0

WordOrHyphen == LowerChars \o UpperChars \o "0123456789_-"
HexDigits == "abcdef0123456789"

\* the group captured by /\[[\w\-]+ ([a-f0-9]+)\]/ matched at position i, "" without a match
hashAt(s, i) ==
    IF CharAt(s, i) # "[" THEN ""
    ELSE LET w == runOf(s, i + 1, WordOrHyphen)
             h == runOf(s, i + 2 + w, HexDigits)
         IN  IF /\ w >= 1 /\ i + 1 + w <= Len(s) /\ CharAt(s, i + 1 + w) = " "
                /\ h >= 1 /\ i + 2 + w + h <= Len(s) /\ CharAt(s, i + 2 + w + h) = "]"
             THEN SubSeq(s, i + 2 + w, i + 1 + w + h)
             ELSE ""

\* commitHash || 'unknown'
RECURSIVE hashFrom(_, _)
hashFrom(s, i) ==
    IF i > Len(s) THEN "unknown"
    ELSE IF hashAt(s, i) # "" THEN hashAt(s, i)
    ELSE hashFrom(s, i + 1)

commitHash(commitOutput) == hashFrom(commitOutput, 1)

noChangesResponse == createErrorResponse("**No Changes Detected**\n" \o Rule, "")

stageFailedResponse(addOutput) ==
    createErrorResponse("**Failed to Stage Changes**\n" \o Rule \o "\n\n**Error:** " \o addOutput, "")

commitFailedResponse(commitOutput) ==
    createErrorResponse("**Failed to Create Commit**\n" \o Rule \o "\n\n**Error:** " \o commitOutput, "")

checkpointCreatedResponse(commitOutput, showOutput) ==
    [text |-> "**Checkpoint Created Successfully!**\n" \o Rule
                \o "\n\n**Commit Details:**\n" \o commitOutput
                \o "\n\n**Changes Summary:**\n" \o showOutput
                \o "\n\n**Commit Hash:** " \o commitHash(commitOutput),
     success |-> "true"]

-----------------------------------------------------------------------------
(* Spec: the server. Each caller has one tool call outstanding at a time; a handler
   runs until it awaits, and the other caller's handler and the filesystem move while
   it is suspended. *)

\* the outstanding calls: two, so that handlers can overlap; b is a second client
\* that reads, lists and manages sessions while a also runs the checkpoint workflow
Callers == {"a", "b"}

CheckpointCallers == {"a"}

\* a tool call in flight or answered: the handler's position (the call it awaits) and
\* its locals; once it returned, the response and the execute calls it had made
Req(tool, args, pc, repoPath, awaited, commitOutput, response, calls) ==
    [tool |-> tool, args |-> args, pc |-> pc, repoPath |-> repoPath, awaited |-> awaited,
     commitOutput |-> commitOutput, response |-> response, calls |-> calls]

Idle == Req("", NoArgs, "idle", "", "", "", NoResponse, <<>>)

\* one execute call of a handler: who called, the arguments, and what execute did
LogEntry(req, tool, command, repoPath, isInternal, additionalEnv, ret) ==
    [req |-> req, tool |-> tool, command |-> command, repoPath |-> repoPath,
     isInternal |-> isInternal, additionalEnv |-> additionalEnv, ret |-> ret]

TimedOut ==
    ProcThrow("Error", [message |-> "spawnSync git ETIMEDOUT", code |-> "ETIMEDOUT", signal |-> "SIGTERM",
                        status |-> "null", stdout |-> "", stderr |-> ""])

Failed ==
    ProcThrow("Error", [message |-> "Command failed: git", status |-> "128", stdout |-> "",
                        stderr |-> "fatal: bad object"])

\* how the git process of a handler's call can end, by subcommand
ServerProcOutcomes(args) ==
    CASE args[1] = "status" -> {ProcOk(""), ProcOk(" M file.txt\n"), Failed}
      [] args[1] = "add" -> {ProcOk(""), TimedOut, Failed}
      [] args[1] = "commit" -> {ProcOk("[main abc123] Fix\n 1 file changed\n"), Failed}
      [] args[1] = "show" -> {ProcOk("commit abc123\n file.txt | 1 +\n"), TimedOut}
      [] OTHER -> {ProcOk(""), ProcOk("abc123 Fix\n"), Failed}

\* execute is inside execFileSync: the git process was started and has not ended
Running(args, spawned) == [kind |-> "running", text |-> "", args |-> args, spawned |-> spawned]

\* execute up to the call of execFileSync, in the current filesystem and environment:
\* the rejection it returns, or the git process it starts
executeStart(command, repoPath, isInternal, additionalEnv) ==
    LET c == checked(command, repoPath, isInternal, fs)
    IN  IF c.rejection # ""
        THEN Returned(c.rejection, c.args, <<>>)
        ELSE Running(c.args, <<spawnOf(join(repoPath, SHADOWGIT_DIR), repoPath, c.args, processEnv,
                                       additionalEnv)>>)

\* what the execute call e, inside execFileSync, can return when the git process ends
executeOutcomes(e) ==
    {invoke(e.ret.args, e.repoPath, e.additionalEnv, processEnv, proc) :
        proc \in ServerProcOutcomes(e.ret.args)}

FetchOutcomes ==
    {FetchResponse(TRUE, "object", JsonTrue, Str("s1")),
     FetchResponse(TRUE, "object", JsonFalse, Absent), FetchRejected("TypeError")}

\* repos.json as loaded: nothing, or a repository and an entry that lacks its path
ServerSnapshots ==
    {<<>>, <<RepoEntry("app", "/r"), [kind |-> "object", fields |-> [name |-> "np"]]>>}

GitCommandArgs ==
    {NoArgs,
     Args([repo |-> Str("nope"), command |-> Str("log --oneline -10")]),
     Args([repo |-> Str("np"), command |-> Str("log --oneline -10")]),
     Args([repo |-> Str("app"), command |-> Str("log --oneline -10")]),
     Args([repo |-> Str("app"), command |-> Str("commit -m x")]),
     Args([repo |-> Str("app"), command |-> Str("push origin main")])}

CheckpointArgs ==
    {Args([repo |-> Str("app"), title |-> NotStr]),
     Args([repo |-> Str("app"), title |-> Str(repeat("t", 51))]),
     Args([repo |-> Str("app"), title |-> Str("Fix"), message |-> Str(repeat("m", 1001))]),
     Args([repo |-> Str("nope"), title |-> Str("Fix")]),
     Args([repo |-> Str("np"), title |-> Str("Fix")]),
     Args([repo |-> Str("app"), title |-> Str("Fix"), message |-> Str("why"), author |-> Str("Claude Bot")])}

StartSessionArgs ==
    {NoArgs,
     Args([repo |-> Str("nope"), description |-> Str("task")]),
     Args([repo |-> Str("np"), description |-> Str("task")]),
     Args([repo |-> Str("app"), description |-> Str("task")])}

EndSessionArgs ==
    {NoArgs, Args([sessionId |-> Str("s1"), commitHash |-> Str("abc123")]),
     Args([sessionId |-> Str("")]), Args([sessionId |-> NotStr])}

UnknownTools == {"delete_repo"}

MarkerOfApp == markerOf("/r")

Init ==
    /\ repositories \in ServerSnapshots
    /\ fs = FsWithMarkers({"/r"})
    /\ processEnv = ProcessEnvHostile
    /\ ecall = NoExecCall
    /\ eret = NoExecRet
    /\ rcall = NoInput
    /\ rret = NoResolved
    /\ scall = NoSessionCall
    /\ sret = NoSessionRet
    /\ reqs = [c \in Callers |-> Idle]
    /\ execLog = <<>>

\* a git process started by execFileSync has not ended: execFileSync has not returned,
\* so no other code of the server process runs
GitRunning == \E n \in 1..Len(execLog) : execLog[n].ret.kind = "running"

\* a server that takes up no call while a checkpoint workflow is between its steps
CanCall_CheckpointLocks(c) ==
    /\ ~GitRunning /\ reqs[c].pc \in {"idle", "done"}
    /\ \A d \in DOMAIN reqs : reqs[d].pc \notin {"status", "add", "commit", "show"}

\* the server can take up the next call of caller c
CanCall(c) == ~GitRunning /\ reqs[c].pc \in {"idle", "done"}

\* the execute calls in execLog made for caller c, and the others
CallsOf(c) == SelectSeq(execLog, LAMBDA e : e.req = c)
CallsOfOthers(c) == SelectSeq(execLog, LAMBDA e : e.req # c)

\* the handler returned without awaiting anything
Respond(c, tool, args, response) ==
    /\ reqs' = [reqs EXCEPT ![c] = Req(tool, args, "done", "", "", "", response, <<>>)]
    /\ execLog' = execLog

\* the handler awaits something other than execute
Await(c, tool, args, pc, repoPath) ==
    /\ reqs' = [reqs EXCEPT ![c] = Req(tool, args, pc, repoPath, "", "", NoResponse, <<>>)]
    /\ execLog' = execLog

\* the handler called execute, which returned a rejection or is inside execFileSync
Suspend(c, tool, args, pc, repoPath, command, isInternal, additionalEnv) ==
    \E ret \in {executeStart(command, repoPath, isInternal, additionalEnv)} :
        /\ execLog' = Append(execLog, LogEntry(c, tool, command, repoPath, isInternal, additionalEnv, ret))
        /\ reqs' = [reqs EXCEPT ![c] = Req(tool, args, pc, repoPath, ret.text, "", NoResponse, <<>>)]

\* the suspended handler of c goes on to its next execute call
Continue(c, pc, command, isInternal, additionalEnv, commitOutput) ==
    \E ret \in {executeStart(command, reqs[c].repoPath, isInternal, additionalEnv)} :
        /\ execLog' = Append(execLog, LogEntry(c, reqs[c].tool, command, reqs[c].repoPath, isInternal,
                                               additionalEnv, ret))
        /\ reqs' = [reqs EXCEPT ![c].pc = pc, ![c].awaited = ret.text, ![c].commitOutput = commitOutput]

\* the suspended handler of c returns: its execute calls leave the log of the calls
\* in flight and stay with the answered call
Finish(c, response) ==
    /\ reqs' = [reqs EXCEPT ![c].pc = "done", ![c].awaited = "", ![c].commitOutput = "",
                            ![c].response = response, ![c].calls = CallsOf(c)]
    /\ execLog' = CallsOfOthers(c)

ServerFrame == UNCHANGED <<repositories, fs, processEnv, ecall, eret, rcall, rret, scall, sret>>

\* this.repositoryManager.resolveRepoPath(args.repo)
resolveRepo(args) == resolveRepoPath(StringInput(args.fields["repo"].value), repositories, fs)

\* !repoPath
notResolved(r) == r.kind # "path" \/ r.value = ""

\* a list_repos that loads repos.json again
CallListRepos_Reloads ==
    /\ \E c \in Callers :
          /\ CanCall(c)
          /\ \E loaded \in ServerSnapshots :
                /\ repositories' = loaded
                /\ Respond(c, "list_repos", NoArgs, listRepos(loaded))
    /\ UNCHANGED <<fs, processEnv, ecall, eret, rcall, rret, scall, sret>>

CallListRepos ==
    /\ \E c \in Callers :
          /\ CanCall(c)
          /\ Respond(c, "list_repos", NoArgs, listRepos(repositories))
    /\ ServerFrame

CallGitCommand ==
    /\ \E c \in Callers, args \in GitCommandArgs :
          /\ CanCall(c)
          /\ IF ~isGitCommandArgs(args)
             THEN Respond(c, "git_command", args,
                          createErrorResponse("Error: Both 'repo' and 'command' parameters are required.",
                                              "Use list_repos() to see available repositories."))
             ELSE \E r \in {resolveRepo(args)} :
                     IF r.kind = "throw"
                     THEN Respond(c, "git_command", args, dispatcherCatch("git_command", TypeErrorText))
                     ELSE IF notResolved(r)
                     THEN Respond(c, "git_command", args,
                                  gitCommandNotFound(args.fields["repo"].value, repositories))
                     ELSE Suspend(c, "git_command", args, "execute", r.value,
                                  StrCmd(args.fields["command"].value), gitCommandTrust, EmptyEnv)
    /\ ServerFrame

GitCommandReturn ==
    /\ ~GitRunning
    /\ \E c \in Callers :
          /\ reqs[c].tool = "git_command" /\ reqs[c].pc = "execute"
          /\ Finish(c, gitCommandResponse(processEnv, reqs[c].args.fields["repo"].value,
                                          reqs[c].args.fields["command"].value, reqs[c].awaited))
    /\ ServerFrame

CallCheckpoint ==
    /\ \E c \in CheckpointCallers, args \in CheckpointArgs :
          /\ CanCall(c)
          /\ IF ~isValidArgs(args)
             THEN Respond(c, "checkpoint", args,
                          createErrorResponse("Error: Both 'repo' and 'title' parameters are required.",
                                              "Use list_repos() to see available repositories."))
             ELSE IF Len(args.fields["title"].value) > 50
             THEN Respond(c, "checkpoint", args,
                          createErrorResponse("Error: Title must be 50 characters or less (current: "
                                                \o ToString(Len(args.fields["title"].value)) \o " chars).", ""))
             ELSE IF Len(optional(args, "message")) > 1000
             THEN Respond(c, "checkpoint", args,
                          createErrorResponse("Error: Message must be 1000 characters or less (current: "
                                                \o ToString(Len(optional(args, "message"))) \o " chars).", ""))
             ELSE \E r \in {resolveRepo(args)} :
                     IF r.kind = "throw"
                     THEN Respond(c, "checkpoint", args, dispatcherCatch("checkpoint", TypeErrorText))
                     ELSE IF notResolved(r)
                     THEN Respond(c, "checkpoint", args,
                                  checkpointNotFound(args.fields["repo"].value, repositories))
                     ELSE Suspend(c, "checkpoint", args, "status", r.value,
                                  ArrCmd(<<"status", "--porcelain">>), TRUE, EmptyEnv)
    /\ ServerFrame

\* a handler that takes an error text of the status step for a failure and stops
CheckpointAfterStatus_StopsOnError ==
    /\ ~GitRunning
    /\ \E c \in Callers :
          /\ reqs[c].tool = "checkpoint" /\ reqs[c].pc = "status"
          /\ IF reqs[c].awaited = "" \/ trim(reqs[c].awaited) = "" \/ reqs[c].awaited = "(empty output)"
             THEN Finish(c, noChangesResponse)
             ELSE IF startsWith(reqs[c].awaited, "Error")
             THEN Finish(c, stageFailedResponse(reqs[c].awaited))
             ELSE Continue(c, "add", ArrCmd(<<"add", "-A">>), TRUE, EmptyEnv, "")
    /\ ServerFrame

CheckpointAfterStatus ==
    /\ ~GitRunning
    /\ \E c \in Callers :
          /\ reqs[c].tool = "checkpoint" /\ reqs[c].pc = "status"
          /\ IF reqs[c].awaited = "" \/ trim(reqs[c].awaited) = "" \/ reqs[c].awaited = "(empty output)"
             THEN Finish(c, noChangesResponse)
             ELSE Continue(c, "add", ArrCmd(<<"add", "-A">>), TRUE, EmptyEnv, "")
    /\ ServerFrame

\* a handler that stages again when staging failed
CheckpointAfterAdd_Retry ==
    /\ ~GitRunning
    /\ \E c \in Callers :
          /\ reqs[c].tool = "checkpoint" /\ reqs[c].pc = "add"
          /\ IF startsWith(reqs[c].awaited, "Error:")
             THEN Continue(c, "add", ArrCmd(<<"add", "-A">>), TRUE, EmptyEnv, "")
             ELSE Continue(c, "commit", ArrCmd(<<"commit", "-m", fullMessage(reqs[c].args)>>), TRUE,
                           commitEnv(reqs[c].args), "")
    /\ ServerFrame

CheckpointAfterAdd ==
    /\ ~GitRunning
    /\ \E c \in Callers :
          /\ reqs[c].tool = "checkpoint" /\ reqs[c].pc = "add"
          /\ IF startsWith(reqs[c].awaited, "Error:")
             THEN Finish(c, stageFailedResponse(reqs[c].awaited))
             ELSE Continue(c, "commit", ArrCmd(<<"commit", "-m", fullMessage(reqs[c].args)>>), TRUE,
                           commitEnv(reqs[c].args), "")
    /\ ServerFrame

CheckpointAfterCommit ==
    /\ ~GitRunning
    /\ \E c \in Callers :
          /\ reqs[c].tool = "checkpoint" /\ reqs[c].pc = "commit"
          /\ IF startsWith(reqs[c].awaited, "Error:")
             THEN Finish(c, commitFailedResponse(reqs[c].awaited))
             ELSE Continue(c, "show", ArrCmd(<<"show", "--stat", "--format=short", "HEAD">>), TRUE,
                           EmptyEnv, reqs[c].awaited)
    /\ ServerFrame

CheckpointAfterShow ==
    /\ ~GitRunning
    /\ \E c \in Callers :
          /\ reqs[c].tool = "checkpoint" /\ reqs[c].pc = "show"
          /\ Finish(c, checkpointCreatedResponse(reqs[c].commitOutput, reqs[c].awaited))
    /\ ServerFrame

CallStartSession ==
    /\ \E c \in Callers, args \in StartSessionArgs :
          /\ CanCall(c)
          /\ IF ~isStartSessionArgs(args)
             THEN Respond(c, "start_session", args,
                          createErrorResponse("Error: Both \"repo\" and \"description\" are required for start_session.", ""))
             ELSE \E r \in {resolveRepo(args)} :
                     IF r.kind = "throw"
                     THEN Respond(c, "start_session", args, dispatcherCatch("start_session", TypeErrorText))
                     ELSE IF notResolved(r)
                     THEN Respond(c, "start_session", args,
                                  createErrorResponse("Error: Repository '" \o args.fields["repo"].value
                                       \o "' not found. Use list_repos() to see available repositories.", ""))
                     ELSE Await(c, "start_session", args, "fetch", r.value)
    /\ ServerFrame

StartSessionReturn ==
    /\ ~GitRunning
    /\ \E c \in Callers, fetched \in FetchOutcomes :
          /\ reqs[c].tool = "start_session" /\ reqs[c].pc = "fetch"
          /\ Finish(c, IF startSession(fetched).value # ""
                       THEN createTextResponse("Session started successfully.\nSession ID: "
                                                 \o startSession(fetched).value)
                       ELSE createErrorResponse("Session API is offline. Proceeding without session tracking.", ""))
    /\ ServerFrame

\* an end_session that is taken up only once some start_session was answered with an id
CallEndSession_NeedsStart ==
    /\ \E d \in Callers :
          /\ reqs[d].tool = "start_session" /\ reqs[d].pc = "done"
          /\ reqs[d].response.success = "absent"
    /\ \E c \in Callers, args \in EndSessionArgs :
          /\ CanCall(c)
          /\ IF ~isEndSessionArgs(args)
             THEN Respond(c, "end_session", args,
                          createErrorResponse("Error: \"sessionId\" is required for end_session.", ""))
             ELSE Await(c, "end_session", args, "fetch", "")
    /\ ServerFrame

CallEndSession ==
    /\ \E c \in Callers, args \in EndSessionArgs :
          /\ CanCall(c)
          /\ IF ~isEndSessionArgs(args)
             THEN Respond(c, "end_session", args,
                          createErrorResponse("Error: \"sessionId\" is required for end_session.", ""))
             ELSE Await(c, "end_session", args, "fetch", "")
    /\ ServerFrame

EndSessionReturn ==
    /\ ~GitRunning
    /\ \E c \in Callers, fetched \in FetchOutcomes :
          /\ reqs[c].tool = "end_session" /\ reqs[c].pc = "fetch"
          /\ Finish(c, IF endSession(fetched).value
                       THEN createTextResponse("Session " \o reqs[c].args.fields["sessionId"].value
                                                 \o " ended successfully.")
                       ELSE createErrorResponse("**Failed to End Session**\n" \o Rule, ""))
    /\ ServerFrame

CallUnknownTool ==
    /\ \E c \in Callers, name \in UnknownTools :
          /\ CanCall(c)
          /\ Respond(c, name, NoArgs,
                     createTextResponse("Unknown tool: " \o name
                         \o ". Available tools: list_repos, git_command, start_session, checkpoint, end_session"))
    /\ ServerFrame

\* the git process ends: execFileSync returns or throws, and execute returns its text to
\* the handler that awaits it
ExecFileSyncReturns ==
    /\ \E n \in 1..Len(execLog) :
          /\ execLog[n].ret.kind = "running"
          /\ \E ret \in executeOutcomes(execLog[n]) :
                /\ execLog' = [execLog EXCEPT ![n].ret = ret]
                /\ reqs' = [reqs EXCEPT ![execLog[n].req].awaited = ret.text]
    /\ ServerFrame

\* outside the server the marker directory of the repository is removed or created
FsChange ==
    /\ fs' = [fs EXCEPT ![MarkerOfApp] = IF @ = "dir" THEN "none" ELSE "dir"]
    /\ UNCHANGED <<repositories, processEnv, ecall, eret, rcall, rret, scall, sret, reqs, execLog>>

Next ==
    \/ CallListRepos
    \/ CallGitCommand
    \/ GitCommandReturn
    \/ CallCheckpoint
    \/ CheckpointAfterStatus
    \/ CheckpointAfterAdd
    \/ CheckpointAfterCommit
    \/ CheckpointAfterShow
    \/ CallStartSession
    \/ StartSessionReturn
    \/ CallEndSession
    \/ EndSessionReturn
    \/ CallUnknownTool
    \/ ExecFileSyncReturns
    \/ FsChange

Spec == Init /\ [][Next]_vars

-----------------------------------------------------------------------------
(* Properties of the server, checked under Spec *)

CheckpointSteps == {"status", "add", "commit", "show"}

\* every execute call on record: of the handlers in flight and of the answered calls
ExecCalls ==
    {execLog[n] : n \in 1..Len(execLog)}
        \cup UNION {{reqs[c].calls[n] : n \in 1..Len(reqs[c].calls)} : c \in Callers}

\* C4: every execute call made with internal trust is made by the checkpoint handler
\* with a pre-built array starting with status, add, commit or show; every execute call
\* of git_command is external, and git never runs for it with a subcommand outside
\* SAFE_COMMANDS.
C4_InternalTrustOnlyFromCheckpoint ==
    \A e \in ExecCalls :
        /\ e.isInternal =>
              (e.tool = "checkpoint" /\ e.command.isArray /\ Len(e.command.arr) > 0
                  /\ e.command.arr[1] \in CheckpointSteps)
        /\ e.tool = "git_command" =>
              (~e.isInternal
                  /\ \A k \in 1..Len(e.ret.spawned) :
                        Len(e.ret.spawned[k].args) >= 3 /\ e.ret.spawned[k].args[3] \in SAFE_COMMANDS)

\* C4 witness: a checkpoint ran commit with internal trust while git_command was
\* refused the same subcommand
C4_Witness ==
    /\ \E e \in ExecCalls :
          /\ e.tool = "checkpoint" /\ e.isInternal
          /\ e.command.arr[1] = "commit"
          /\ Len(e.ret.spawned) = 1 /\ e.ret.spawned[1].args[3] = "commit"
    /\ \E e \in ExecCalls :
          /\ e.tool = "git_command" /\ ~e.isInternal
          /\ e.command.str = "commit -m x"
          /\ e.ret.spawned = <<>>
          /\ startsWith(e.ret.text, "Error: Command 'commit' is not allowed.")

\* the execute calls, in order, of the call caller c has in flight or had answered last
CallsMadeBy(c) == IF reqs[c].pc = "done" THEN reqs[c].calls ELSE CallsOf(c)

\* the subcommand of an execute call made with a pre-built array
StepOf(e) == IF e.command.isArray /\ Len(e.command.arr) > 0 THEN e.command.arr[1] ELSE ""

\* execute ended in a failure outcome: a rejection before the git process started, a
\* timeout, a failure with stderr, stdout or status, or an unknown failure
GatewayFailure(ret) ==
    \/ ret.spawned = <<>>
    \/ startsWith(ret.text, "Error: ")
    \/ startsWith(ret.text, "Error executing git command:")

\* C16: whenever the add step or the commit step of a checkpoint ends in a failure
\* outcome of execute, no later step is issued, and the answer is the failure response
\* of that step ('Failed to Stage Changes' / 'Failed to Create Commit') with success =
\* false, never 'Checkpoint Created Successfully'.
C16_FailedStepStopsCheckpoint ==
    \A c \in Callers :
        reqs[c].tool = "checkpoint" =>
            \A n \in 1..Len(CallsMadeBy(c)) :
                LET e == CallsMadeBy(c)[n] IN
                (StepOf(e) \in {"add", "commit"} /\ GatewayFailure(e.ret)) =>
                    /\ n = Len(CallsMadeBy(c))
                    /\ reqs[c].pc = "done" =>
                          /\ reqs[c].response.success = "false"
                          /\ includes(reqs[c].response.text,
                                      IF StepOf(e) = "add" THEN "**Failed to Stage Changes**"
                                      ELSE "**Failed to Create Commit**")
                          /\ ~includes(reqs[c].response.text, "Checkpoint Created Successfully")

\* the argument arrays of the checkpoint workflow for the tool arguments args, in order
WorkflowSteps(args) ==
    <<<<"status", "--porcelain">>, <<"add", "-A">>, <<"commit", "-m", fullMessage(args)>>,
      <<"show", "--stat", "--format=short", "HEAD">>>>

\* the fixed overrides of the environment of the git process
SafetyOverrides ==
    [GIT_TERMINAL_PROMPT |-> "0", GIT_SSH_COMMAND |-> "ssh -o BatchMode=yes", GIT_PAGER |-> "cat",
     PAGER |-> "cat"]

AuthorVariables == {"GIT_AUTHOR_NAME", "GIT_AUTHOR_EMAIL", "GIT_COMMITTER_NAME", "GIT_COMMITTER_EMAIL"}

\* C18: every git process a tool handler starts runs with GIT_TERMINAL_PROMPT = '0',
\* GIT_SSH_COMMAND = 'ssh -o BatchMode=yes', GIT_PAGER = 'cat' and PAGER = 'cat' whatever
\* the process environment holds; an additional environment is passed only by the commit
\* step of checkpoint and sets exactly the four author and committer variables, which
\* reach the git process.
C18_SafetyEnvironmentAlways ==
    \A e \in ExecCalls :
        /\ \A k \in 1..Len(e.ret.spawned) :
              /\ \A v \in DOMAIN SafetyOverrides :
                    v \in DOMAIN e.ret.spawned[k].env /\ e.ret.spawned[k].env[v] = SafetyOverrides[v]
              /\ \A v \in DOMAIN e.additionalEnv :
                    v \in DOMAIN e.ret.spawned[k].env /\ e.ret.spawned[k].env[v] = e.additionalEnv[v]
        /\ e.additionalEnv # EmptyEnv =>
              /\ e.tool = "checkpoint" /\ StepOf(e) = "commit"
              /\ DOMAIN e.additionalEnv = AuthorVariables

\* C18 witness: the commit step started git with the author's name and with the pager
\* override, although the process environment sets another pager
C18_Witness ==
    /\ processEnv["GIT_PAGER"] = "less" /\ processEnv["GIT_TERMINAL_PROMPT"] = "1"
    /\ \E e \in ExecCalls :
          /\ e.tool = "checkpoint" /\ StepOf(e) = "commit" /\ Len(e.ret.spawned) = 1
          /\ e.ret.spawned[1].env["GIT_AUTHOR_NAME"] = "Claude Bot"
          /\ e.ret.spawned[1].env["GIT_PAGER"] = "cat"
          /\ e.ret.spawned[1].env["GIT_TERMINAL_PROMPT"] = "0"

\* a step of the server process: a tool request is taken up, or a suspended handler
\* goes on
ServerStep ==
    \/ CallListRepos \/ CallGitCommand \/ CallCheckpoint \/ CallStartSession \/ CallEndSession
    \/ CallUnknownTool
    \/ GitCommandReturn \/ CheckpointAfterStatus \/ CheckpointAfterAdd \/ CheckpointAfterCommit
    \/ CheckpointAfterShow \/ StartSessionReturn \/ EndSessionReturn

\* C19: while a git process started by execute has not ended, the server is not blocked:
\* another tool request can be taken up or go on before execFileSync returns.
C19_ServerNotBlockedWhileGitRuns ==
    GitRunning => ENABLED ServerStep

\* the answer to the last call of caller c reports an error: invalid arguments or a
\* repository not found ('Error: ...'), a rejection or failure returned by execute,
\* an unknown tool name, or an exception caught by the dispatcher
ReportsError(c) ==
    /\ reqs[c].pc = "done"
    /\ \/ startsWith(reqs[c].response.text, "Error: ")
       \/ \E n \in 1..Len(reqs[c].calls) :
             reqs[c].tool = "git_command" /\ GatewayFailure(reqs[c].calls[n].ret)
       \/ reqs[c].tool \in UnknownTools
       \/ startsWith(reqs[c].response.text, "Error executing " \o reqs[c].tool \o ": ")

\* C20: every tool response that reports an error carries success = false.
C20_ErrorResponsesCarrySuccessFalse ==
    \A c \in Callers : ReportsError(c) => reqs[c].response.success = "false"

\* the call of caller c has issued the step named step
StepIssued(c, step) == \E n \in 1..Len(CallsMadeBy(c)) : StepOf(CallsMadeBy(c)[n]) = step

\* the arguments of a checkpoint call pass the validation: string repo and title, a title
\* of at most 50 characters, a message that is absent or has at most 1000 characters
CheckpointArgsAccepted(args) ==
    /\ isValidArgs(args)
    /\ Len(args.fields["title"].value) <= 50
    /\ Len(optional(args, "message")) <= 1000

\* C24: a checkpoint issues add -A only after its arguments passed the validation, the
\* repository resolved and the status step returned a text that is neither blank nor
\* '(empty output)'; a checkpoint answered without having issued add -A is answered
\* with success = false; after an argument or resolution failure git was never started.
C24_AddOnlyAfterValidationAndChanges ==
    \A c \in Callers :
        reqs[c].tool = "checkpoint" =>
            LET calls == CallsMadeBy(c) IN
            /\ StepIssued(c, "add") =>
                  /\ CheckpointArgsAccepted(reqs[c].args)
                  /\ StepOf(calls[1]) = "status" /\ calls[1].repoPath # ""
                  /\ trim(calls[1].ret.text) # "" /\ calls[1].ret.text # "(empty output)"
            /\ (reqs[c].pc = "done" /\ ~StepIssued(c, "add")) => reqs[c].response.success = "false"
            /\ (reqs[c].pc = "done" /\ (~CheckpointArgsAccepted(reqs[c].args) \/ ~StepIssued(c, "status")))
                  => calls = <<>>

\* the server can take up a git_command of caller c that starts git in the directory
\* repoPath
CanStartGitIn(c, repoPath) ==
    /\ CanCall(c)
    /\ \E args \in GitCommandArgs :
          /\ isGitCommandArgs(args)
          /\ \E r \in {resolveRepo(args)} :
                /\ r.kind = "path" /\ r.value = repoPath
                /\ executeStart(StrCmd(args.fields["command"].value), r.value, gitCommandTrust,
                                EmptyEnv).kind = "running"

\* the checkpoint of caller c is between two steps: a step returned, the next one is not
\* issued yet
BetweenSteps(c) ==
    reqs[c].tool = "checkpoint" /\ reqs[c].pc \in {"status", "add", "commit"} /\ ~GitRunning

\* C25: there is no mutual exclusion per repository: whenever a checkpoint is between two
\* of its steps, a git_command of another caller for the same repository can be taken
\* up and start git there (as long as the marker directory exists and that caller has no
\* call in flight).
C25_NoMutualExclusionPerRepository ==
    \A c \in Callers, d \in Callers :
        (c # d /\ BetweenSteps(c) /\ reqs[d].pc \in {"idle", "done"}
            /\ existsSync(fs, join(reqs[c].repoPath, SHADOWGIT_DIR)))
            => CanStartGitIn(d, reqs[c].repoPath)

\* C25 witness: git ran for a git_command of another caller between the add step and the
\* commit step of a checkpoint, in the same directory, and the checkpoint went on to
\* start its commit
C25_Witness ==
    \E i \in 1..Len(execLog), j \in 1..Len(execLog), k \in 1..Len(execLog) :
        /\ i < j /\ j < k
        /\ execLog[i].tool = "checkpoint" /\ StepOf(execLog[i]) = "add"
        /\ execLog[k].tool = "checkpoint" /\ StepOf(execLog[k]) = "commit"
        /\ execLog[k].req = execLog[i].req /\ Len(execLog[k].ret.spawned) = 1
        /\ execLog[j].req # execLog[i].req /\ execLog[j].tool = "git_command"
        /\ execLog[j].repoPath = execLog[i].repoPath
        /\ execLog[j].ret.kind = "return" /\ Len(execLog[j].ret.spawned) = 1

\* the server took up a call of caller c whose handler resolved a repository
ResolvedOnTakeUp(c) ==
    /\ reqs[c].pc \in {"idle", "done"}
    /\ reqs'[c] # reqs[c]
    /\ reqs'[c].repoPath # ""

\* C26: the snapshot loaded at construction is never changed by a tool call, and
\* resolveRepoPath keeps no state: the path a handler works on is the one resolveRepoPath
\* gives for its input, the snapshot and the filesystem at the time of the call,
\* whatever calls came before.
C26_SnapshotFixedResolveStateless ==
    [][/\ repositories' = repositories
       /\ \A c \in DOMAIN reqs :
             ResolvedOnTakeUp(c) =>
                reqs'[c].repoPath
                    = resolveRepoPath(StringInput(reqs'[c].args.fields["repo"].value), repositories, fs).value]_vars

\* C26 witness: after a whole checkpoint of one caller and a git_command of the other the
\* snapshot is the one loaded at construction
C26_Witness ==
    /\ repositories = <<RepoEntry("app", "/r"), [kind |-> "object", fields |-> [name |-> "np"]]>>
    /\ reqs["a"].tool = "checkpoint" /\ reqs["a"].pc = "done" /\ Len(reqs["a"].calls) = 4
    /\ reqs["b"].tool = "git_command" /\ reqs["b"].pc = "done" /\ reqs["b"].repoPath = "/r"

\* some caller's request can be taken up
Free == \E c \in Callers : CanCall(c)

\* C28: the server enforces no order between session and git operations and keeps no
\* session state: whenever it can take up a request it takes up any tool, whatever was
\* called or answered before (checkpoint and git_command need no start_session, end_session
\* needs neither start_session nor checkpoint); start_session awaits the session API only
\* with the path its repository resolved to (while the marker directory was there); end_session with any string sessionId goes to the
\* session API and is answered from what the API said.
C28_NoOrderNoSessionState ==
    /\ Free => ENABLED CallGitCommand /\ ENABLED CallStartSession /\ ENABLED CallEndSession
    /\ (\A c \in CheckpointCallers : CanCall(c)) => ENABLED CallCheckpoint
    /\ \A c \in Callers :
          /\ reqs[c].tool = "start_session" /\ reqs[c].pc = "fetch" =>
                /\ isStartSessionArgs(reqs[c].args)
                /\ reqs[c].repoPath # ""
                /\ \E r \in {resolveRepoPath(StringInput(reqs[c].args.fields["repo"].value), repositories,
                                             [fs EXCEPT ![MarkerOfApp] = "dir"])} :
                      r.kind = "path" /\ r.value = reqs[c].repoPath
          /\ reqs[c].tool = "end_session" /\ isEndSessionArgs(reqs[c].args) =>
                \/ reqs[c].pc = "fetch"
                \/ /\ reqs[c].pc = "done"
                   /\ reqs[c].response \in
                         {createTextResponse("Session " \o reqs[c].args.fields["sessionId"].value
                                               \o " ended successfully."),
                          createErrorResponse("**Failed to End Session**\n" \o Rule, "")}

\* C28 witness: end_session with the empty sessionId awaits the session API while the
\* other caller has called nothing and no git command has run
C28_Witness ==
    /\ reqs["b"].tool = "end_session" /\ reqs["b"].pc = "fetch"
    /\ reqs["b"].args = Args([sessionId |-> Str("")])
    /\ reqs["a"] = Idle /\ execLog = <<>>

\* C30: in the checkpoint workflow a failure outcome of the status step is taken for
\* 'changes present': once the handler went on from a status step that was rejected,
\* timed out or failed, it has issued add -A; and the outcome of the show step is never
\* inspected: once show returned, whatever it returned, the answer is 'Checkpoint
\* Created Successfully' with success = true and the text of show in it.
C30_StatusFailureAndShowOutcomeIgnored ==
    \A c \in Callers :
        reqs[c].tool = "checkpoint" =>
            LET calls == CallsMadeBy(c) IN
            /\ (Len(calls) >= 1 /\ calls[1].ret.kind # "running" /\ GatewayFailure(calls[1].ret)
                   /\ reqs[c].pc # "status")
                  => Len(calls) >= 2 /\ calls[2].command = ArrCmd(<<"add", "-A">>)
            /\ (Len(calls) = 4 /\ reqs[c].pc = "done")
                  => /\ reqs[c].response.success = "true"
                     /\ includes(reqs[c].response.text, "**Checkpoint Created Successfully!**")
                     /\ includes(reqs[c].response.text, "**Changes Summary:**\n" \o calls[4].ret.text)

\* C30 witness: a checkpoint whose status step and show step both ended in a failure
\* outcome was answered with success = true
C30_Witness ==
    \E c \in Callers :
        /\ reqs[c].tool = "checkpoint" /\ reqs[c].pc = "done" /\ Len(reqs[c].calls) = 4
        /\ GatewayFailure(reqs[c].calls[1].ret) /\ GatewayFailure(reqs[c].calls[4].ret)
        /\ reqs[c].response.success = "true"

=============================================================================
